---- MODULE Spec2Model ----
(***************************************************************************)
(* Model of the travel planner: the itinerary builder                      *)
(* (src/tools/build_itinerary.py), the preference parser                   *)
(* (src/tools/parse_trip_prefs.py), the hotel search                       *)
(* (src/tools/search_hotels.py), the wizard (src/app.py), the formatter     *)
(* (src/utils/formatter.py) and the exporter                               *)
(* (src/tools/export_itinerary.py).                                        *)
(*                                                                         *)
(* Text is modelled as a sequence of tokens:                               *)
(*   "F"   the fence delimiter (three backticks)                           *)
(*   "J"   the word json                                                   *)
(*   "W"   white space (blank or newline)                                  *)
(*   "P"   a word of prose                                                 *)
(*   "N"   the number literal 1                                            *)
(*   "Q"   a double quote                                                  *)
(*   "LB"  the text  {"summary":      "RB"  the text  }                    *)
(*   "OBJ" the serialised text of the reply object (it holds no backtick)  *)
(* A reply of the language model is a pair: the token text, and the object *)
(* that the token "OBJ" stands for.                                        *)
(*                                                                         *)
(* Costs are exact fixed-point numbers counted in units of 0.005, so the   *)
(* tolerance 0.01 of the total check is 2 units.                           *)
(***************************************************************************)
EXTENDS Integers, Sequences, FiniteSets, TLC

VARIABLES
    pc,              \* position of build_itinerary
    trip_prefs,      \* argument trip_prefs
    hotel,           \* argument hotel (Optional: <<>> or <<h>>)
    llm_calls,       \* number of llm_client.invoke calls of the current call
    response_text,   \* response.content, a token sequence
    response_obj,    \* the object the token "OBJ" of response_text stands for
    json_str,        \* local json_str of _parse_llm_response
    itinerary_data,  \* value returned by _parse_llm_response
    day_index,       \* position of the for loop over daily_plans
    daily_plans,     \* local list daily_plans
    total_cost,      \* local accumulator total_cost
    result,          \* the returned Itinerary (Optional: <<>> or <<it>>)
    error,           \* the raised error (Optional: <<>> or <<e>>)
    state,           \* the AgentState dict handed to parse_trip_preferences
    search_response, \* search_hotels: the response of the search request
    hotels,          \* search_hotels: the outcome, a list of Hotel or an error
    session_state,   \* st.session_state of the wizard, a dict
    page,            \* what the last run of main rendered
    selected_hotel_obj, \* select_hotel_and_attractions: the hotel chosen in the select box
    llm_client,      \* the field llm_client of an ItineraryBuilder
    prompt_inputs,   \* the objects handed to _create_llm_prompt
    prompts,         \* the calls of _create_llm_prompt: arguments and returned string
    llm_replies,     \* the replies of the client to parse_trip_preferences_with_llm
    itinerary_obj,   \* the Itinerary handed to the formatter and to the exporter
    output_dir,      \* the files of the output directory of the exporter
    returned         \* what the last call of the formatter or of the exporter returned

builder_vars == <<pc, trip_prefs, hotel, llm_calls, response_text, response_obj, json_str,
                  itinerary_data, day_index, daily_plans, total_cost, result, error>>
prefs_vars == <<state>>
search_vars == <<search_response, hotels>>
wizard_vars == <<session_state, page, selected_hotel_obj>>
prompt_vars == <<llm_client, prompt_inputs, prompts>>
llm_vars == <<llm_replies>>
export_vars == <<itinerary_obj, output_dir, returned>>
tools_vars == <<llm_client, prompt_inputs, prompts, llm_replies, itinerary_obj, output_dir,
                returned>>
app_vars == <<state, search_response, hotels, session_state, page, selected_hotel_obj,
              tools_vars>>

vars == <<pc, trip_prefs, hotel, llm_calls, response_text, response_obj, json_str,
          itinerary_data, day_index, daily_plans, total_cost, result, error,
          state, search_response, hotels, session_state, page, selected_hotel_obj,
          llm_client, prompt_inputs, prompts, llm_replies, itinerary_obj, output_dir,
          returned>>

-----------------------------------------------------------------------------
(* Bounds *)

MaxDays == 2
MaxActs == 1
MaxDayCost == 2
MaxTopCost == 4
MaxTextLen == 4
MaxStrLen == 4
MaxTripDay == 3
MaxBudget == 2
MaxResults == 3
MaxHotels == 2

-----------------------------------------------------------------------------
(* Generic helpers *)

None == <<>>
Some(v) == <<v>>

Min(S) == CHOOSE x \in S : \A y \in S : x <= y

Abs(x) == IF x < 0 THEN -x ELSE x

RECURSIVE SeqsUpTo(_, _)
SeqsUpTo(S, n) ==
    IF n = 0 THEN {<<>>}
    ELSE LET shorter == SeqsUpTo(S, n - 1)
         IN  shorter \cup {Append(s, x) : s \in {t \in shorter : Len(t) = n - 1}, x \in S}

Without(d, k) == [x \in (DOMAIN d) \ {k} |-> d[x]]

-----------------------------------------------------------------------------
(* Text: Python's "in", str.split and json.loads on token sequences *)

Tokens == {"F", "J", "W", "P", "N", "Q", "LB", "RB", "OBJ"}

\* tokens whose text holds no double quote: they may stand inside a string literal
QuoteFree == {"F", "J", "W", "P", "N", "RB"}

FENCE == <<"F">>
JSON_FENCE == <<"F", "J">>

\* positions at which sep occurs in s
Occurrences(s, sep) ==
    {i \in 1..(Len(s) - Len(sep) + 1) : SubSeq(s, i, i + Len(sep) - 1) = sep}

\* sep in s
Contains(s, sep) == Occurrences(s, sep) # {}

\* s.split(sep): the parts between the leftmost non-overlapping occurrences
RECURSIVE Split(_, _)
Split(s, sep) ==
    IF ~Contains(s, sep) THEN <<s>>
    ELSE LET i == Min(Occurrences(s, sep))
         IN  <<SubSeq(s, 1, i - 1)>> \o Split(SubSeq(s, i + Len(sep), Len(s)), sep)

\* white space at both ends is skipped by the JSON decoder
RECURSIVE StripLeft(_)
StripLeft(s) ==
    IF s # <<>> /\ Head(s) = "W" THEN StripLeft(Tail(s)) ELSE s

RECURSIVE StripRight(_)
StripRight(s) ==
    IF s # <<>> /\ s[Len(s)] = "W" THEN StripRight(SubSeq(s, 1, Len(s) - 1)) ELSE s

Strip(s) == StripRight(StripLeft(s))

\* a JSON string literal: quote, text without quote, quote
IsStringLiteral(s) ==
    /\ Len(s) >= 2
    /\ s[1] = "Q"
    /\ s[Len(s)] = "Q"
    /\ \A i \in 2..(Len(s) - 1) : s[i] \in QuoteFree

StringText(s) == SubSeq(s, 2, Len(s) - 1)

\* a JSON number literal: one or more digits 1
IsNumberLiteral(s) == s # <<>> /\ \A i \in 1..Len(s) : s[i] = "N"

\* a JSON object with the single member summary
IsSummaryObject(s) ==
    /\ Len(s) >= 4
    /\ s[1] = "LB"
    /\ s[Len(s)] = "RB"
    /\ IsStringLiteral(Strip(SubSeq(s, 2, Len(s) - 1)))

DecodeError == [ok |-> FALSE, kind |-> "JSONDecodeError", dict |-> <<>>]
Decoded(kind, d) == [ok |-> TRUE, kind |-> kind, dict |-> d]

\* json.loads(s), where the token "OBJ" is the text of the object obj
JsonLoads(s, obj) ==
    LET body == Strip(s)
    IN  IF body = <<"OBJ">> THEN Decoded("dict", obj)
        ELSE IF IsSummaryObject(body)
             THEN Decoded("dict",
                          [summary |-> StringText(Strip(SubSeq(body, 2, Len(body) - 1)))])
        ELSE IF IsNumberLiteral(body) THEN Decoded("int", <<>>)
        ELSE IF IsStringLiteral(body) THEN Decoded("str", <<>>)
        ELSE DecodeError

\* the payload when the untagged fence is looked for first
ExtractJsonStrFenceFirst(response) ==
    IF Contains(response, FENCE)
    THEN Split(response, FENCE)[2]
    ELSE IF Contains(response, JSON_FENCE)
         THEN Split(Split(response, JSON_FENCE)[2], FENCE)[1]
         ELSE response

\* the payload _parse_llm_response hands to json.loads
ExtractJsonStr(response) ==
    IF Contains(response, JSON_FENCE)
    THEN Split(Split(response, JSON_FENCE)[2], FENCE)[1]
    ELSE IF Contains(response, FENCE)
         THEN Split(response, FENCE)[2]
         ELSE response

\* a parser that puts an empty object in the place of a payload that is not JSON
ParseLLMResponseDefault(response, obj) ==
    IF JsonLoads(ExtractJsonStr(response), obj).ok
    THEN JsonLoads(ExtractJsonStr(response), obj)
    ELSE Decoded("dict", obj)

\* ItineraryBuilder._parse_llm_response
ParseLLMResponse(response, obj) == JsonLoads(ExtractJsonStr(response), obj)

-----------------------------------------------------------------------------
(* Dates: datetime.strptime(s, "%Y-%m-%d") on character sequences *)

Digits09 == {"0", "1", "2", "3", "4", "5", "6", "7", "8", "9"}
Digits19 == Digits09 \ {"0"}

DigitVal(c) ==
    CASE c = "0" -> 0 [] c = "1" -> 1 [] c = "2" -> 2 [] c = "3" -> 3 [] c = "4" -> 4
      [] c = "5" -> 5 [] c = "6" -> 6 [] c = "7" -> 7 [] c = "8" -> 8 [] c = "9" -> 9
      [] OTHER -> 0

RECURSIVE NumVal(_)
NumVal(s) == IF s = <<>> THEN 0
             ELSE 10 * NumVal(SubSeq(s, 1, Len(s) - 1)) + DigitVal(s[Len(s)])

\* the alternatives of the directives, in the order the regular expression tries them:
\* %Y is \d\d\d\d, %m is 1[0-2]|0[1-9]|[1-9], %d is 3[01]|[12]\d|0[1-9]|[1-9]| [1-9]
YearPattern == <<Digits09, Digits09, Digits09, Digits09>>
MonthAlternatives == << <<{"1"}, {"0", "1", "2"}>>, <<{"0"}, Digits19>>, <<Digits19>> >>
DayAlternatives == << <<{"3"}, {"0", "1"}>>, <<{"1", "2"}, Digits09>>, <<{"0"}, Digits19>>,
                      <<Digits19>>, <<{" "}, Digits19>> >>

\* the pattern matches s at position p
MatchesAt(s, p, pattern) ==
    /\ p + Len(pattern) - 1 <= Len(s)
    /\ \A i \in 1..Len(pattern) : s[p + i - 1] \in pattern[i]

LiteralAt(s, p, c) == p <= Len(s) /\ s[p] = c

\* the pairs (month alternative, day alternative) with which the whole format matches
\* a prefix of s
FormatMatches(s) ==
    {km \in (1..Len(MonthAlternatives)) \X (1..Len(DayAlternatives)) :
        LET mp == MonthAlternatives[km[1]]
            dp == DayAlternatives[km[2]]
        IN  /\ MatchesAt(s, 1, YearPattern)
            /\ LiteralAt(s, 5, "-")
            /\ MatchesAt(s, 6, mp)
            /\ LiteralAt(s, 6 + Len(mp), "-")
            /\ MatchesAt(s, 7 + Len(mp), dp)}

\* the match the backtracking search finds first
FirstMatch(s) ==
    CHOOSE km \in FormatMatches(s) :
        \A other \in FormatMatches(s) :
            \/ km[1] < other[1]
            \/ (km[1] = other[1] /\ km[2] <= other[2])

IsLeap(y) == (y % 4 = 0 /\ y % 100 # 0) \/ y % 400 = 0

DaysInMonth(y, m) ==
    IF m = 2 THEN (IF IsLeap(y) THEN 29 ELSE 28)
    ELSE IF m \in {4, 6, 9, 11} THEN 30 ELSE 31

NoDate == [y |-> 0, m |-> 0, d |-> 0]
DateError(msg) == [ok |-> FALSE, err |-> msg, date |-> NoDate]

\* a parser that ignores text after the date
StrptimePrefix(s) ==
    IF FormatMatches(s) = {}
    THEN DateError("time data does not match format '%Y-%m-%d'")
    ELSE LET km == FirstMatch(s)
             ml == Len(MonthAlternatives[km[1]])
             dl == Len(DayAlternatives[km[2]])
             end == 6 + ml + dl
             y == NumVal(SubSeq(s, 1, 4))
             m == NumVal(SubSeq(s, 6, 5 + ml))
             d == NumVal(SubSeq(s, 7 + ml, end))
         IN  IF y < 1 THEN DateError("year is out of range")
             ELSE IF d > DaysInMonth(y, m) THEN DateError("day is out of range for month")
             ELSE [ok |-> TRUE, err |-> "", date |-> [y |-> y, m |-> m, d |-> d]]

\* datetime.strptime(s, "%Y-%m-%d")
Strptime(s) ==
    IF FormatMatches(s) = {}
    THEN DateError("time data does not match format '%Y-%m-%d'")
    ELSE LET km == FirstMatch(s)
             ml == Len(MonthAlternatives[km[1]])
             dl == Len(DayAlternatives[km[2]])
             end == 6 + ml + dl
             y == NumVal(SubSeq(s, 1, 4))
             m == NumVal(SubSeq(s, 6, 5 + ml))
             d == NumVal(SubSeq(s, 7 + ml, end))
         IN  IF end # Len(s) THEN DateError("unconverted data remains")
             ELSE IF y < 1 THEN DateError("year is out of range")
             ELSE IF d > DaysInMonth(y, m) THEN DateError("day is out of range for month")
             ELSE [ok |-> TRUE, err |-> "", date |-> [y |-> y, m |-> m, d |-> d]]

-----------------------------------------------------------------------------
(* The reply object: the JSON value the language model was asked for *)

RequiredActivityKeys ==
    <<"name", "start_time", "end_time", "location", "description", "category">>
OptionalActivityKeys == <<"cost", "booking_url", "notes">>
ActivityKeys == RequiredActivityKeys \o OptionalActivityKeys

\* a JSON value read as a number: a number, or a value of another type
JNumber(n) == <<"number", n>>
JString == <<"string", 0>>
IsNumber(v) == v[1] = "number"
NumberOf(v) == v[2]

\* the tolerance 0.01 of the total check, in units of 0.005
Tolerance == 2

FullActivity(name, cost) ==
    [name |-> name, start_time |-> "09:00", end_time |-> "10:00", location |-> "loc",
     description |-> "desc", category |-> "cat", cost |-> cost,
     booking_url |-> "url", notes |-> "act-note"]

RECURSIVE WithoutAll(_, _)
WithoutAll(d, ks) ==
    IF ks = <<>> THEN d ELSE WithoutAll(Without(d, Head(ks)), Tail(ks))

Chars_2024_06_01 == <<"2", "0", "2", "4", "-", "0", "6", "-", "0", "1">>
Chars_2024_06_02 == <<"2", "0", "2", "4", "-", "0", "6", "-", "0", "2">>
GoodDates == {Chars_2024_06_01, Chars_2024_06_02}

\* date strings: year, separator, month, separator, day, trailing text
DateInputs ==
    {y \o <<sep>> \o m \o <<sep>> \o d \o t :
        y \in {<<"2", "0", "2", "4">>, <<"2", "4">>},
        sep \in {"-", "/"},
        m \in {<<"0", "6">>, <<"6">>, <<"0", "2">>, <<"1", "3">>},
        d \in {<<"0", "1">>, <<"1">>, <<"3", "0">>, <<" ", "1">>},
        t \in {<<>>, <<"T">>}}

Summaries == {<<"P">>, <<"P", "W", "P">>}

LouvreVisit == FullActivity("Louvre", 1)

\* activity objects: complete, one key missing, all optional keys missing
ActivityVariants ==
    {LouvreVisit, WithoutAll(LouvreVisit, OptionalActivityKeys)}
        \cup {Without(LouvreVisit, ActivityKeys[i]) : i \in 1..Len(ActivityKeys)}

GoodDay(date, acts, cost) ==
    [date |-> date, activities |-> acts, total_cost |-> JNumber(cost), notes |-> "day-note"]

ReplyObject(days, total, summary) ==
    [daily_plans |-> days, total_cost |-> total, summary |-> summary]

\* well-formed days on one date, with every reported day total
GoodDays ==
    {GoodDay(Chars_2024_06_01, <<LouvreVisit>>, cost) : cost \in 0..MaxDayCost}

\* one well-formed day, with every number of activities and every reported day total
BusyDays ==
    {GoodDay(date, acts, cost) :
        date \in GoodDates,
        acts \in SeqsUpTo({LouvreVisit}, MaxActs),
        cost \in 0..MaxDayCost}

\* one day with any defect of its own members
DefectiveDays ==
    LET base == GoodDay(Chars_2024_06_01, <<LouvreVisit>>, 1)
        dates == {base, Without(base, "date"),
                  [base EXCEPT !.date = <<"2", "0", "2", "4", "-", "6", "-", "1">>],
                  [base EXCEPT !.date = <<"2", "0", "2", "4", "/", "0", "6", "/", "0", "1">>]}
        totals(d) == {d, Without(d, "total_cost"), [d EXCEPT !.total_cost = JString]}
        notes(d) == {d, Without(d, "notes")}
        acts(d) == {Without(d, "activities"), [d EXCEPT !.activities = <<>>]}
                     \cup {[d EXCEPT !.activities = <<a>>] : a \in ActivityVariants}
    IN  UNION {UNION {UNION {acts(d3) : d3 \in notes(d2)} : d2 \in totals(d1)} : d1 \in dates}

TopTotals == {JNumber(n) : n \in 0..MaxTopCost} \cup {JString}

\* replies whose days are well formed: every reported total, with and without members
WellFormedDayObjects ==
    LET full == {ReplyObject(days, total, <<"P">>) :
                    days \in SeqsUpTo(GoodDays, MaxDays), total \in TopTotals}
    IN  UNION {{o, Without(o, "summary"), Without(o, "total_cost"),
                WithoutAll(o, <<"total_cost", "summary">>)} : o \in full}
          \cup {Without(ReplyObject(<<>>, JNumber(0), <<"P">>), "daily_plans")}
          \cup {ReplyObject(<<day>>, day["total_cost"], sm) :
                    day \in BusyDays, sm \in Summaries}

\* replies with a defective day, alone or after a good day
DefectiveDayObjects ==
    {ReplyObject(prefix \o <<day>>, JNumber(Len(prefix) + 1), <<"P">>) :
        prefix \in {<<>>, <<GoodDay(Chars_2024_06_02, <<>>, 1)>>},
        day \in DefectiveDays}

\* replies with one day, over all date strings
DatedObjects ==
    {ReplyObject(<<GoodDay(date, <<LouvreVisit>>, 1)>>, JNumber(1), <<"P">>) :
        date \in DateInputs}

\* replies whose days are not in the order of their dates and whose activities are not
\* in the order of their start times
SeineCruise == [FullActivity("Seine Cruise", 1) EXCEPT !.start_time = "14:00",
                                                        !.end_time = "15:00"]
LateDay == GoodDay(Chars_2024_06_02, <<SeineCruise, LouvreVisit>>, 2)
EarlyDay == GoodDay(Chars_2024_06_01, <<LouvreVisit>>, 1)
UnsortedObjects ==
    {ReplyObject(<<LateDay, EarlyDay>>, JNumber(3), <<"P">>),
     ReplyObject(<<EarlyDay, LateDay>>, JNumber(3), <<"P">>),
     ReplyObject(<<LateDay>>, JNumber(2), <<"P">>)}

SampleObject ==
    ReplyObject(<<GoodDay(Chars_2024_06_01, <<LouvreVisit>>, 1)>>, JNumber(1), <<"P">>)

-----------------------------------------------------------------------------
(* The reply text *)

Reply(text, obj) == <<text, obj>>

FreeTextAlphabet == {"F", "J", "W", "P", "N", "OBJ"}
StringAlphabet == {"F", "J", "P", "N"}

\* JSON texts: the object, a number, string literals, objects holding a string
JsonBodies ==
    LET strings == {<<"Q">> \o t \o <<"Q">> : t \in SeqsUpTo(StringAlphabet, MaxStrLen)}
    IN  {<<"OBJ">>, <<"N">>} \cup strings \cup {<<"LB">> \o st \o <<"RB">> : st \in strings}

\* the body inside a fenced block tagged json
JsonFenced(body) == <<"F", "J", "W">> \o body \o <<"W", "F">>

\* longer replies: prose and an untagged block before the tagged one, a block tagged
\* with another language, an unclosed block
ExampleTexts ==
    {<<"P", "W", "F", "P", "F", "W", "F", "J", "W", "OBJ", "W", "F", "W", "P">>,
     <<"P", "W", "F", "W", "OBJ", "W", "F", "W", "P">>,
     <<"F", "P", "W", "OBJ", "W", "F">>,
     <<"P", "F", "J", "W", "OBJ">>}

Replies ==
    {Reply(<<"OBJ">>, o) : o \in WellFormedDayObjects}
      \cup {Reply(t, SampleObject) : t \in ExampleTexts}
      \cup {Reply(JsonFenced(<<"OBJ">>), o) : o \in DefectiveDayObjects \cup DatedObjects}
      \cup {Reply(<<"OBJ">>, o) : o \in UnsortedObjects}
      \cup {Reply(t, SampleObject) : t \in SeqsUpTo(FreeTextAlphabet, MaxTextLen)}
      \cup {Reply(b, SampleObject) : b \in JsonBodies}
      \cup {Reply(JsonFenced(b), SampleObject) : b \in JsonBodies}

-----------------------------------------------------------------------------
(* Arguments of build_itinerary *)

Date(y, m, d) == [y |-> y, m |-> m, d |-> d]

TripPreferencesInputs ==
    {[destination |-> "Paris", start_date |-> Date(2024, 6, 1), end_date |-> Date(2024, 6, 7),
      budget |-> 2000, travel_style |-> "moderate", interests |-> <<"culture", "food">>],
     [destination |-> "Rome", start_date |-> Date(2024, 7, 1), end_date |-> Date(2024, 7, 3),
      budget |-> 500, travel_style |-> "budget", interests |-> <<"art">>]}

HotelInputs == {None, Some([name |-> "Hotel Lutetia", address |-> "45 Bd Raspail"])}

-----------------------------------------------------------------------------
(* build_itinerary *)

\* dict.get(key): the value, or None
Get(d, key) == IF key \in DOMAIN d THEN Some(d[key]) ELSE None

KeyError(key) == "'" \o key \o "'"

\* raise ValueError(f"Failed to parse LLM response as JSON: {e}")
ParseFailure == "Failed to parse LLM response as JSON"

\* a check of the key alone, which lets an empty list through
NoDailyPlansKeyOnly(data) == "daily_plans" \notin DOMAIN data

\* a check against None alone, which lets an empty list through
NoDailyPlansNoneOnly(data) == Get(data, "daily_plans") = None

\* not itinerary_data.get("daily_plans")
NoDailyPlans(data) == Get(data, "daily_plans") \in {None, Some(<<>>)}

\* a constructor that looks up the optional keys as it does the required ones
FirstMissingKeyAll(act) ==
    LET missing == {i \in 1..Len(ActivityKeys) : ActivityKeys[i] \notin DOMAIN act}
    IN  IF missing = {} THEN "" ELSE ActivityKeys[Min(missing)]

\* Activity(...) of one activity object: the first key whose lookup raises, or ""
FirstMissingKey(act) ==
    LET missing == {i \in 1..Len(RequiredActivityKeys) :
                        RequiredActivityKeys[i] \notin DOMAIN act}
    IN  IF missing = {} THEN "" ELSE RequiredActivityKeys[Min(missing)]

MakeActivity(act) ==
    [name |-> act["name"], start_time |-> act["start_time"], end_time |-> act["end_time"],
     location |-> act["location"], description |-> act["description"],
     category |-> act["category"], cost |-> Get(act, "cost"),
     booking_url |-> Get(act, "booking_url"), notes |-> Get(act, "notes")]

\* the activities comprehension of one day: the message of the first error, or ""
ActivitiesError(day_data) ==
    IF "activities" \notin DOMAIN day_data THEN KeyError("activities")
    ELSE LET acts == day_data["activities"]
             bad == {i \in 1..Len(acts) : FirstMissingKey(acts[i]) # ""}
         IN  IF bad = {} THEN ""
             ELSE KeyError(FirstMissingKey(acts[Min(bad)]))

\* the activities of one day in the reverse of the reply's order
MakeActivitiesReversed(day_data) ==
    LET acts == day_data["activities"]
    IN  [i \in 1..Len(acts) |-> MakeActivity(acts[Len(acts) + 1 - i])]

MakeActivities(day_data) ==
    [i \in 1..Len(day_data["activities"]) |-> MakeActivity(day_data["activities"][i])]

\* day_cost = day_data["total_cost"]; total_cost += day_cost:
\* the message of the error, or ""
DayCostError(day_data) ==
    IF "total_cost" \notin DOMAIN day_data THEN KeyError("total_cost")
    ELSE IF ~IsNumber(day_data["total_cost"])
         THEN "unsupported operand type(s) for +=: 'float' and 'str'"
    ELSE ""

\* datetime.strptime(day_data["date"], "%Y-%m-%d"): the message of the error, or ""
DayDateError(day_data) ==
    IF "date" \notin DOMAIN day_data THEN KeyError("date")
    ELSE Strptime(day_data["date"]).err

RECURSIVE ActivityCostSum(_)
ActivityCostSum(acts) ==
    IF acts = <<>> THEN 0
    ELSE (IF "cost" \in DOMAIN Head(acts) THEN Head(acts)["cost"] ELSE 0)
            + ActivityCostSum(Tail(acts))

\* a DayPlan whose total is recomputed from the costs of its activities
MakeDayPlanRecomputed(day_data) ==
    [date |-> Strptime(day_data["date"]).date,
     activities |-> MakeActivities(day_data),
     total_cost |-> ActivityCostSum(day_data["activities"]),
     notes |-> Get(day_data, "notes")]

\* DayPlan(date=..., activities=activities, total_cost=day_cost, notes=...)
MakeDayPlan(day_data) ==
    [date |-> Strptime(day_data["date"]).date,
     activities |-> MakeActivities(day_data),
     total_cost |-> NumberOf(day_data["total_cost"]),
     notes |-> Get(day_data, "notes")]

\* the comparison without abs
TotalMismatchSigned(total, reported) == total - reported > Tolerance

\* abs(total_cost - itinerary_data["total_cost"]) > 0.01
TotalMismatch(total, reported) == Abs(total - reported) > Tolerance

\* the message of the error of the total check, or ""
TotalCostError(total, data) ==
    IF "total_cost" \notin DOMAIN data THEN KeyError("total_cost")
    ELSE IF ~IsNumber(data["total_cost"])
         THEN "unsupported operand type(s) for -: 'float' and 'str'"
    ELSE IF TotalMismatch(total, NumberOf(data["total_cost"]))
         THEN "Total cost mismatch in itinerary"
    ELSE ""

\* the Itinerary with the total the reply reports instead of the accumulated one
MakeItineraryReportedTotal(prefs, h, plans, total, data) ==
    IF "summary" \notin DOMAIN data THEN None
    ELSE Some([destination |-> prefs.destination,
               start_date |-> prefs.start_date,
               end_date |-> prefs.end_date,
               daily_plans |-> plans,
               total_cost |-> NumberOf(data["total_cost"]),
               travel_style |-> prefs.travel_style,
               interests |-> prefs.interests,
               hotel |-> h,
               summary |-> data["summary"]])

\* the Itinerary with an empty summary in the place of a missing one
MakeItineraryDefaultSummary(prefs, h, plans, total, data) ==
    Some([destination |-> prefs.destination,
          start_date |-> prefs.start_date,
          end_date |-> prefs.end_date,
          daily_plans |-> plans,
          total_cost |-> total,
          travel_style |-> prefs.travel_style,
          interests |-> prefs.interests,
          hotel |-> h,
          summary |-> IF "summary" \in DOMAIN data THEN data["summary"] ELSE <<>>])

\* Itinerary(..., summary=itinerary_data["summary"]): the Itinerary, or None when the
\* lookup of summary raises
MakeItinerary(prefs, h, plans, total, data) ==
    IF "summary" \notin DOMAIN data THEN None
    ELSE Some([destination |-> prefs.destination,
               start_date |-> prefs.start_date,
               end_date |-> prefs.end_date,
               daily_plans |-> plans,
               total_cost |-> total,
               travel_style |-> prefs.travel_style,
               interests |-> prefs.interests,
               hotel |-> h,
               summary |-> data["summary"]])

BuildError(cause) == [type |-> "ValueError", prefix |-> "Failed to build itinerary: ",
                      cause |-> cause]

\* the underlying exception escaping as it is
RaiseUnwrapped(cause) ==
    /\ pc' = "raised"
    /\ error' = Some([type |-> "Exception", prefix |-> "", cause |-> cause])

\* except Exception as e: raise ValueError(f"Failed to build itinerary: {str(e)}")
Raise(cause) ==
    /\ pc' = "raised"
    /\ error' = Some(BuildError(cause))

\* no call of build_itinerary is under way
BuilderIdle ==
    /\ pc = "idle"
    /\ trip_prefs = None
    /\ hotel = None
    /\ llm_calls = 0
    /\ response_text = <<>>
    /\ response_obj = <<>>
    /\ json_str = <<>>
    /\ itinerary_data = <<>>
    /\ day_index = 0
    /\ daily_plans = <<>>
    /\ total_cost = 0
    /\ result = None
    /\ error = None

\* the other components are not in use
PrefsIdle == state = None
SearchIdle == search_response = None /\ hotels = None
WizardIdle == session_state = None /\ page = None /\ selected_hotel_obj = None
PromptIdle == llm_client = None /\ prompt_inputs = None /\ prompts = None
LLMIdle == llm_replies = None
ExportIdle == itinerary_obj = None /\ output_dir = None /\ returned = None
ToolsIdle == PromptIdle /\ LLMIdle /\ ExportIdle

Init == BuilderIdle /\ PrefsIdle /\ SearchIdle /\ WizardIdle /\ ToolsIdle

\* the caller calls build_itinerary(trip_prefs, hotel, attractions); the prompt is composed
Call ==
    /\ pc = "idle"
    /\ \E p \in TripPreferencesInputs, h \in HotelInputs :
          /\ trip_prefs' = Some(p)
          /\ hotel' = h
    /\ pc' = "invoke"
    /\ result' = None
    /\ error' = None
    /\ UNCHANGED <<llm_calls, response_text, response_obj, json_str, itinerary_data,
                   day_index, daily_plans, total_cost>>
    /\ UNCHANGED app_vars

\* response = self.llm_client.invoke([message]) returns a reply
InvokeLLM ==
    /\ pc = "invoke"
    /\ \E r \in Replies :
          /\ response_text' = r[1]
          /\ response_obj' = r[2]
    /\ llm_calls' = llm_calls + 1
    /\ pc' = "check_empty"
    /\ UNCHANGED <<trip_prefs, hotel, json_str, itinerary_data, day_index, daily_plans,
                   total_cost, result, error>>
    /\ UNCHANGED app_vars

\* a failed invocation that is tried again
InvokeLLMFailsAndRetries ==
    /\ pc = "invoke"
    /\ llm_calls' = llm_calls + 1
    /\ UNCHANGED <<pc, trip_prefs, hotel, response_text, response_obj, json_str,
                   itinerary_data, day_index, daily_plans, total_cost, result, error>>
    /\ UNCHANGED app_vars

\* self.llm_client.invoke([message]) raises
InvokeLLMFails ==
    /\ pc = "invoke"
    /\ llm_calls' = llm_calls + 1
    /\ Raise("llm client error")
    /\ UNCHANGED <<trip_prefs, hotel, response_text, response_obj, json_str, itinerary_data,
                   day_index, daily_plans, total_cost, result>>
    /\ UNCHANGED app_vars

\* if not response_text: raise ValueError("Empty response from LLM")
CheckEmpty ==
    /\ pc = "check_empty"
    /\ IF response_text = <<>>
       THEN Raise("Empty response from LLM")
       ELSE pc' = "parse" /\ UNCHANGED error
    /\ UNCHANGED <<trip_prefs, hotel, llm_calls, response_text, response_obj, json_str,
                   itinerary_data, day_index, daily_plans, total_cost, result>>
    /\ UNCHANGED app_vars

\* itinerary_data = self._parse_llm_response(response_text)
ParseResponse ==
    /\ pc = "parse"
    /\ json_str' = ExtractJsonStr(response_text)
    /\ LET parsed == ParseLLMResponse(response_text, response_obj)
       IN  IF parsed.ok
           THEN /\ itinerary_data' = parsed
                /\ pc' = "validate"
                /\ UNCHANGED error
           ELSE /\ Raise(ParseFailure)
                /\ UNCHANGED itinerary_data
    /\ UNCHANGED <<trip_prefs, hotel, llm_calls, response_text, response_obj, day_index,
                   daily_plans, total_cost, result>>
    /\ UNCHANGED app_vars

\* if not itinerary_data.get("daily_plans"): raise ValueError("No daily plans in itinerary")
\* daily_plans = []; total_cost = 0.0
ValidateDailyPlans ==
    /\ pc = "validate"
    /\ IF itinerary_data.kind # "dict"
       THEN /\ Raise("'" \o itinerary_data.kind \o "' object has no attribute 'get'")
            /\ UNCHANGED <<day_index, daily_plans, total_cost>>
       ELSE IF NoDailyPlans(itinerary_data.dict)
       THEN /\ Raise("No daily plans in itinerary")
            /\ UNCHANGED <<day_index, daily_plans, total_cost>>
       ELSE /\ pc' = "loop"
            /\ day_index' = 1
            /\ daily_plans' = <<>>
            /\ total_cost' = 0
            /\ UNCHANGED error
    /\ UNCHANGED <<trip_prefs, hotel, llm_calls, response_text, response_obj, json_str,
                   itinerary_data, result>>
    /\ UNCHANGED app_vars

\* one iteration of: for day_data in itinerary_data["daily_plans"]
ProcessDay ==
    /\ pc = "loop"
    /\ day_index <= Len(itinerary_data.dict["daily_plans"])
    /\ LET day_data == itinerary_data.dict["daily_plans"][day_index]
       IN  IF ActivitiesError(day_data) # ""
           THEN /\ Raise(ActivitiesError(day_data))
                /\ UNCHANGED <<day_index, daily_plans, total_cost>>
           ELSE IF DayCostError(day_data) # ""
           THEN /\ Raise(DayCostError(day_data))
                /\ UNCHANGED <<day_index, daily_plans, total_cost>>
           ELSE IF DayDateError(day_data) # ""
           THEN /\ Raise(DayDateError(day_data))
                /\ total_cost' = total_cost + NumberOf(day_data["total_cost"])
                /\ UNCHANGED <<day_index, daily_plans>>
           ELSE /\ total_cost' = total_cost + NumberOf(day_data["total_cost"])
                /\ daily_plans' = Append(daily_plans, MakeDayPlan(day_data))
                /\ day_index' = day_index + 1
                /\ UNCHANGED <<pc, error>>
    /\ UNCHANGED <<trip_prefs, hotel, llm_calls, response_text, response_obj, json_str,
                   itinerary_data, result>>
    /\ UNCHANGED app_vars

\* a builder that looks up the summary before it compares the totals
VerifyTotalCostAfterSummary ==
    /\ pc = "loop"
    /\ day_index > Len(itinerary_data.dict["daily_plans"])
    /\ IF "summary" \notin DOMAIN itinerary_data.dict
       THEN Raise(KeyError("summary"))
       ELSE IF TotalCostError(total_cost, itinerary_data.dict) # ""
       THEN Raise(TotalCostError(total_cost, itinerary_data.dict))
       ELSE pc' = "assemble" /\ UNCHANGED error
    /\ UNCHANGED <<trip_prefs, hotel, llm_calls, response_text, response_obj, json_str,
                   itinerary_data, day_index, daily_plans, total_cost, result>>
    /\ UNCHANGED app_vars

\* if abs(total_cost - itinerary_data["total_cost"]) > 0.01: raise ValueError(...)
VerifyTotalCost ==
    /\ pc = "loop"
    /\ day_index > Len(itinerary_data.dict["daily_plans"])
    /\ IF TotalCostError(total_cost, itinerary_data.dict) # ""
       THEN Raise(TotalCostError(total_cost, itinerary_data.dict))
       ELSE pc' = "assemble" /\ UNCHANGED error
    /\ UNCHANGED <<trip_prefs, hotel, llm_calls, response_text, response_obj, json_str,
                   itinerary_data, day_index, daily_plans, total_cost, result>>
    /\ UNCHANGED app_vars

\* return Itinerary(...)
ReturnItinerary ==
    /\ pc = "assemble"
    /\ LET made == MakeItinerary(trip_prefs[1], hotel, daily_plans, total_cost,
                                 itinerary_data.dict)
       IN  IF made = None
           THEN Raise(KeyError("summary")) /\ UNCHANGED result
           ELSE /\ result' = made
                /\ pc' = "returned"
                /\ UNCHANGED error
    /\ UNCHANGED <<trip_prefs, hotel, llm_calls, response_text, response_obj, json_str,
                   itinerary_data, day_index, daily_plans, total_cost>>
    /\ UNCHANGED app_vars

\* the call is over: the caller holds the Itinerary or the error, the locals are gone,
\* and the builder can be called again
Finish ==
    /\ pc \in {"returned", "raised"}
    /\ pc' = "idle"
    /\ trip_prefs' = None
    /\ hotel' = None
    /\ llm_calls' = 0
    /\ response_text' = <<>>
    /\ response_obj' = <<>>
    /\ json_str' = <<>>
    /\ itinerary_data' = <<>>
    /\ day_index' = 0
    /\ daily_plans' = <<>>
    /\ total_cost' = 0
    /\ UNCHANGED <<result, error>>
    /\ UNCHANGED app_vars

Next ==
    \/ Call
    \/ InvokeLLM
    \/ InvokeLLMFails
    \/ CheckEmpty
    \/ ParseResponse
    \/ ValidateDailyPlans
    \/ ProcessDay
    \/ VerifyTotalCost
    \/ ReturnItinerary
    \/ Finish

Spec == Init /\ [][Next]_vars

-----------------------------------------------------------------------------
(* Properties of build_itinerary *)

\* the reply object as parsed, while the call works on it
ReplyData == itinerary_data.dict

RECURSIVE SumDayTotals(_)
SumDayTotals(days) ==
    IF days = <<>> THEN 0
    ELSE NumberOf(Head(days)["total_cost"]) + SumDayTotals(Tail(days))

\* the difference between the sum of the reply's day totals and its top-level total
TotalsDifference == Abs(SumDayTotals(ReplyData["daily_plans"]) - NumberOf(ReplyData["total_cost"]))

\* every day has been processed and the reply reports a number as its total
AtTotalCheck ==
    /\ pc = "loop"
    /\ day_index > Len(ReplyData["daily_plans"])
    /\ "total_cost" \in DOMAIN ReplyData
    /\ IsNumber(ReplyData["total_cost"])

Cause == error[1].cause

\* C1: when the day totals of the reply and its top-level total differ by more than the
\* tolerance the build fails with the total mismatch, when they differ by at most the
\* tolerance the total check passes, and no Itinerary is returned for totals that differ
\* by more than the tolerance.
C1_TotalCostCheck ==
    [][/\ AtTotalCheck /\ TotalsDifference > Tolerance
            => pc' = "raised" /\ Cause' = "Total cost mismatch in itinerary" /\ result' = None
       /\ AtTotalCheck /\ TotalsDifference <= Tolerance
            => pc' = "assemble" /\ error' = None
       /\ pc' = "returned"
            => IsNumber(ReplyData'["total_cost"]) /\ TotalsDifference' <= Tolerance]_vars

C1_Witness ==
    /\ pc = "raised"
    /\ Cause = "Total cost mismatch in itinerary"
    /\ Abs(total_cost - NumberOf(ReplyData["total_cost"])) = Tolerance + 1

\* C2: a returned Itinerary has as total_cost the sum of the day totals of the reply, as
\* summary the summary of the reply, and the destination and dates of the preferences.
C2_RoundTrip ==
    pc = "returned" =>
        /\ result # None
        /\ result[1].total_cost = SumDayTotals(ReplyData["daily_plans"])
        /\ result[1].summary = ReplyData["summary"]
        /\ result[1].destination = trip_prefs[1].destination
        /\ result[1].start_date = trip_prefs[1].start_date
        /\ result[1].end_date = trip_prefs[1].end_date

\* an Itinerary whose total is not the figure the reply reported
C2_Witness ==
    /\ pc = "returned"
    /\ result[1].total_cost # NumberOf(ReplyData["total_cost"])
    /\ Len(result[1].daily_plans) = 2

-----------------------------------------------------------------------------
(* Properties of _parse_llm_response *)

FencePositions(s) == {i \in 1..Len(s) : s[i] = "F"}

\* the fences that are followed by the tag json
TaggedFencePositions(s) == {i \in FencePositions(s) : i < Len(s) /\ s[i + 1] = "J"}

\* the position of the first fence at or after from, or the position after the end
NextFence(s, from) ==
    IF \E j \in FencePositions(s) : j >= from
    THEN Min({j \in FencePositions(s) : j >= from})
    ELSE Len(s) + 1

\* the payload by the priority rule, by positions in the reply
PayloadByPriority(s) ==
    IF TaggedFencePositions(s) # {}
    THEN LET i == Min(TaggedFencePositions(s))
         IN  SubSeq(s, i + 2, NextFence(s, i + 2) - 1)
    ELSE IF FencePositions(s) # {}
    THEN LET i == Min(FencePositions(s))
         IN  SubSeq(s, i + 1, NextFence(s, i + 1) - 1)
    ELSE s


\* C3: the payload is the text between the first fence tagged json and the next fence
\* when the reply has a tagged fence (even after an untagged one), else the contents of
\* the first fenced block when the reply has a fence, else the whole reply; the parsed
\* value is the JSON value of that payload.
C3_ExtractionPriority ==
    [][pc = "parse" =>
          /\ json_str' = PayloadByPriority(response_text)
          /\ IF JsonLoads(PayloadByPriority(response_text), response_obj).ok
             THEN /\ pc' = "validate"
                  /\ itinerary_data' = JsonLoads(PayloadByPriority(response_text),
                                                 response_obj)
             ELSE pc' = "raised" /\ Cause' = ParseFailure]_vars

\* an untagged fenced block stands before the tagged one, and the tagged one is used
C3_Witness ==
    /\ pc = "validate"
    /\ itinerary_data.kind = "dict"
    /\ TaggedFencePositions(response_text) # {}
    /\ Min(FencePositions(response_text)) < Min(TaggedFencePositions(response_text))
    /\ json_str = <<"W", "OBJ", "W">>

\* the reply is a JSON text inside a fenced block tagged json
IsJsonFenced(s) ==
    /\ Len(s) >= 6
    /\ SubSeq(s, 1, 3) = <<"F", "J", "W">>
    /\ SubSeq(s, Len(s) - 1, Len(s)) = <<"W", "F">>
    /\ JsonLoads(SubSeq(s, 4, Len(s) - 2), response_obj).ok

Unfenced(s) == SubSeq(s, 4, Len(s) - 2)

\* the reply has just been parsed: the value, or the failure
JustParsed == pc = "validate" \/ (pc = "raised" /\ Cause = ParseFailure)
ParseOutcome == IF pc = "validate" THEN itinerary_data ELSE DecodeError

\* C4: a JSON text wrapped in a fenced block tagged json is parsed to the same result
\* (the same value, or a failure in both cases) as the JSON text alone.
C4_FencedSameAsBare ==
    JustParsed /\ IsJsonFenced(response_text) =>
        LET bare == ParseLLMResponse(Unfenced(response_text), response_obj)
        IN  /\ ParseOutcome.ok = bare.ok
            /\ ParseOutcome.kind = bare.kind
            /\ ParseOutcome.ok /\ ParseOutcome.kind = "dict" => ParseOutcome.dict = bare.dict

\* C5: an empty reply, or a reply whose payload is not JSON, makes the build raise, and
\* no Itinerary is returned for such a reply.
C5_NoItineraryFromBadReply ==
    [][/\ pc = "check_empty" /\ response_text = <<>>
            => pc' = "raised" /\ error' # None /\ result' = None
       /\ pc = "parse" /\ ~JsonLoads(PayloadByPriority(response_text), response_obj).ok
            => pc' = "raised" /\ error' # None /\ result' = None
       /\ pc' = "returned"
            => /\ response_text' # <<>>
               /\ JsonLoads(PayloadByPriority(response_text'), response_obj').ok]_vars

\* the object is in the reply, and the text after it makes the payload invalid
C5_Witness ==
    /\ pc = "raised"
    /\ Cause = ParseFailure
    /\ Contains(response_text, <<"OBJ">>)
    /\ ~Contains(response_text, FENCE)

-----------------------------------------------------------------------------
(* Properties of the validation and of the loop over the days *)

ReplyDays == ReplyData["daily_plans"]

\* the loop is about to process the day at day_index
InLoopBody == pc = "loop" /\ day_index <= Len(ReplyDays)
CurrentDay == ReplyDays[day_index]

RequiredKeys == {RequiredActivityKeys[i] : i \in 1..Len(RequiredActivityKeys)}
OptionalKeys == {OptionalActivityKeys[i] : i \in 1..Len(OptionalActivityKeys)}

ActivitiesSound(day) ==
    /\ "activities" \in DOMAIN day
    /\ \A j \in 1..Len(day["activities"]) : RequiredKeys \subseteq DOMAIN day["activities"][j]

DayCostSound(day) == "total_cost" \in DOMAIN day /\ IsNumber(day["total_cost"])

DaySound(day) ==
    /\ ActivitiesSound(day)
    /\ DayCostSound(day)
    /\ "date" \in DOMAIN day
    /\ day["date"] \in GoodDates

\* C6: a reply without the key daily_plans, or with an empty list of days, makes the
\* build raise before any day is processed, and no Itinerary is returned for it.
C6_NoDailyPlansFails ==
    [][/\ (/\ pc = "validate"
           /\ itinerary_data.kind = "dict"
           /\ ("daily_plans" \notin DOMAIN ReplyData \/ ReplyData["daily_plans"] = <<>>))
            => /\ pc' = "raised"
               /\ Cause' = "No daily plans in itinerary"
               /\ result' = None
               /\ daily_plans' = <<>>
               /\ day_index' = 0
       /\ pc' = "returned"
            => /\ "daily_plans" \in DOMAIN ReplyData'
               /\ Len(ReplyData'["daily_plans"]) >= 1
               /\ Len(result'[1].daily_plans) >= 1]_vars

\* the list of days is there and empty
C6_Witness ==
    /\ pc = "raised"
    /\ Cause = "No daily plans in itinerary"
    /\ "daily_plans" \in DOMAIN ReplyData
    /\ ReplyData["daily_plans"] = <<>>

\* C7: an activity without one of the six required keys makes the build raise; an
\* activity without cost, booking_url or notes does not, and the field of the Activity
\* is then None.
C7_ActivityKeys ==
    [][/\ (/\ InLoopBody
           /\ "activities" \in DOMAIN CurrentDay
           /\ ~ActivitiesSound(CurrentDay))
            => /\ pc' = "raised"
               /\ Cause' \in {KeyError(k) : k \in RequiredKeys}
               /\ result' = None
       /\ InLoopBody /\ DaySound(CurrentDay)
            => /\ pc' = "loop"
               /\ Len(daily_plans') = Len(daily_plans) + 1
               /\ LET acts == CurrentDay["activities"]
                      built == daily_plans'[Len(daily_plans')].activities
                  IN  /\ Len(built) = Len(acts)
                      /\ \A j \in 1..Len(acts) : \A k \in OptionalKeys :
                            built[j][k] = IF k \in DOMAIN acts[j] THEN Some(acts[j][k])
                                          ELSE None]_vars

\* an Itinerary with an Activity that has no cost
C7_Witness ==
    /\ pc = "returned"
    /\ \E i \in 1..Len(result[1].daily_plans) :
          \E j \in 1..Len(result[1].daily_plans[i].activities) :
              /\ result[1].daily_plans[i].activities[j].cost = None
              /\ result[1].daily_plans[i].activities[j].notes # None

\* a date string of exactly four digits, two digits and two digits, separated by "-"
IsStrictDate(s) ==
    /\ Len(s) = 10
    /\ \A i \in {1, 2, 3, 4, 6, 7, 9, 10} : s[i] \in Digits09
    /\ s[5] = "-"
    /\ s[8] = "-"

\* C8 as stated: an Itinerary is returned only for days whose date string is exactly
\* of the form YYYY-MM-DD with zero-padded month and day.
C8_StrictDateFormat ==
    pc = "returned" => \A i \in 1..Len(ReplyDays) : IsStrictDate(ReplyDays[i]["date"])

\* a date string of a four-digit year, "-", a month of one or two digits, "-", a day of
\* one or two digits (or a blank and a digit), and nothing else, that names a day of
\* the calendar
IsCalendarDate(s) ==
    \E ml \in 1..2, dl \in 1..2 :
        /\ Len(s) = 6 + ml + dl
        /\ \A i \in 1..4 : s[i] \in Digits09
        /\ s[5] = "-"
        /\ \A i \in 6..(5 + ml) : s[i] \in Digits09
        /\ s[6 + ml] = "-"
        /\ \/ \A i \in (7 + ml)..(6 + ml + dl) : s[i] \in Digits09
           \/ dl = 2 /\ s[7 + ml] = " " /\ s[8 + ml] \in Digits19
        /\ NumVal(SubSeq(s, 1, 4)) >= 1
        /\ NumVal(SubSeq(s, 6, 5 + ml)) \in 1..12
        /\ NumVal(SubSeq(s, 7 + ml, 6 + ml + dl))
              \in 1..DaysInMonth(NumVal(SubSeq(s, 1, 4)), NumVal(SubSeq(s, 6, 5 + ml)))

\* the date such a string names
CalendarDate(s) ==
    LET ml == IF s[7] = "-" THEN 1 ELSE 2
    IN  Date(NumVal(SubSeq(s, 1, 4)), NumVal(SubSeq(s, 6, 5 + ml)),
             NumVal(SubSeq(s, 7 + ml, Len(s))))

\* C8 amended: the build raises for every day whose date string does not consist of a
\* four-digit year, a month and a day of one or two digits each, separated by "-", with
\* nothing after them, naming a day of the calendar; for any other day it stores that
\* date in the DayPlan.  Zero padding of month and day is not required.
C8_DateFormat ==
    [][(/\ InLoopBody
        /\ ActivitiesSound(CurrentDay)
        /\ DayCostSound(CurrentDay)
        /\ "date" \in DOMAIN CurrentDay)
            => IF IsCalendarDate(CurrentDay["date"])
               THEN /\ pc' = "loop"
                    /\ daily_plans'[Len(daily_plans')].date = CalendarDate(CurrentDay["date"])
               ELSE pc' = "raised" /\ result' = None]_vars

\* an Itinerary from a date string without zero padding
C8_Witness ==
    /\ pc = "returned"
    /\ \E i \in 1..Len(ReplyDays) :
          /\ ReplyDays[i]["date"] = <<"2", "0", "2", "4", "-", "6", "-", "1">>
          /\ result[1].daily_plans[i].date = Date(2024, 6, 1)

\* C9: a reply without the key summary makes the build raise, even when every day is
\* well formed and the totals agree.
C9_MissingSummaryFails ==
    [][/\ pc = "assemble" /\ "summary" \notin DOMAIN ReplyData
            => pc' = "raised" /\ Cause' = KeyError("summary") /\ result' = None
       /\ pc' = "returned" => "summary" \in DOMAIN ReplyData']_vars

\* every day was accepted and the totals agree, and the build raised for the summary
C9_Witness ==
    /\ pc = "raised"
    /\ Cause = KeyError("summary")
    /\ Len(daily_plans) = Len(ReplyDays)
    /\ IsNumber(ReplyData["total_cost"])
    /\ TotalsDifference <= Tolerance

\* C10: the total of each DayPlan is the total the reply reports for that day, whatever
\* the costs of its activities; a well-formed day is accepted whatever they are, and
\* the total check passes whenever the day totals agree with the top-level total.
C10_DayTotalVerbatim ==
    [][/\ pc' \in {"loop", "assemble", "returned"}
            => \A i \in 1..Len(daily_plans') :
                  daily_plans'[i].total_cost = NumberOf(ReplyDays'[i]["total_cost"])
       /\ InLoopBody /\ DaySound(CurrentDay)
            => pc' = "loop" /\ total_cost' = total_cost + NumberOf(CurrentDay["total_cost"])
       /\ AtTotalCheck /\ TotalsDifference <= Tolerance => pc' = "assemble"]_vars

\* an Itinerary with a day whose total is not the sum of the costs of its activities
C10_Witness ==
    /\ pc = "returned"
    /\ \E i \in 1..Len(ReplyDays) :
          /\ result[1].daily_plans[i].total_cost # ActivityCostSum(ReplyDays[i]["activities"])
          /\ ReplyDays[i]["activities"] # <<>>

-----------------------------------------------------------------------------
(* Properties of the outcome of build_itinerary *)

\* the messages of the failures each step of build_itinerary can meet
StepCauses(step) ==
    CASE step = "invoke" -> {"llm client error"}
      [] step = "check_empty" -> {"Empty response from LLM"}
      [] step = "parse" -> {ParseFailure}
      [] step = "validate" ->
            {"No daily plans in itinerary"}
              \cup {"'" \o k \o "' object has no attribute 'get'" :
                        k \in {"int", "str", "list", "float", "bool", "NoneType"}}
      [] step = "loop" ->
            {KeyError(k) : k \in {"activities", "total_cost", "date"} \cup RequiredKeys}
              \cup {"unsupported operand type(s) for +=: 'float' and 'str'",
                    "unsupported operand type(s) for -: 'float' and 'str'",
                    "Total cost mismatch in itinerary"}
              \cup {Strptime(d).err : d \in DateInputs}
      [] step = "assemble" -> {KeyError("summary")}
      [] OTHER -> {}

\* C11: whatever step of build_itinerary fails, the caller observes a ValueError whose
\* message is "Failed to build itinerary: " followed by the message of the cause of that
\* step; no error of another kind leaves build_itinerary, and a call that raises leaves
\* exactly one error.
C11_SingleErrorKind ==
    [][/\ error' # None
            => /\ error'[1].type = "ValueError"
               /\ error'[1].prefix = "Failed to build itinerary: "
       /\ pc' = "raised" /\ pc # "raised"
            => /\ error' # None
               /\ Cause' # ""
               /\ Cause' \in StepCauses(pc)]_vars

\* a TypeError of the loop over the days reached the caller as the one error kind
C11_Witness ==
    /\ pc = "raised"
    /\ error[1].type = "ValueError"
    /\ error[1].prefix = "Failed to build itinerary: "
    /\ Cause = "unsupported operand type(s) for +=: 'float' and 'str'"

\* every check of the reply has passed: each day is sound and carries a calendar date,
\* the totals agree and the summary is there
ReplyPassedEveryCheck ==
    /\ ~NoDailyPlans(ReplyData)
    /\ \A i \in 1..Len(ReplyDays) :
          /\ ActivitiesSound(ReplyDays[i])
          /\ DayCostSound(ReplyDays[i])
          /\ "date" \in DOMAIN ReplyDays[i]
          /\ IsCalendarDate(ReplyDays[i]["date"])
    /\ "total_cost" \in DOMAIN ReplyData
    /\ IsNumber(ReplyData["total_cost"])
    /\ TotalsDifference <= Tolerance
    /\ "summary" \in DOMAIN ReplyData

\* C12: a call of build_itinerary invokes the language model exactly once, also when it
\* fails; it ends with an Itinerary that holds every day of a reply that passed every
\* check, or with an error and no Itinerary.
C12_OneInvocationAllOrNothing ==
    /\ llm_calls <= 1
    /\ pc \in {"check_empty", "parse", "validate", "loop", "assemble", "returned", "raised"}
          => llm_calls = 1
    /\ pc = "returned"
          => /\ result # None
             /\ error = None
             /\ ReplyPassedEveryCheck
             /\ Len(result[1].daily_plans) = Len(ReplyDays)
    /\ pc = "raised" => result = None /\ error # None
    /\ pc \notin {"returned", "idle"} => result = None

\* the build failed at the second day of the reply, after the first day was accepted
C12_Witness ==
    /\ pc = "raised"
    /\ llm_calls = 1
    /\ Len(daily_plans) = 1
    /\ Len(ReplyDays) = 2
    /\ result = None

\* the DayPlans in plans are the image, in order, of the first days of the reply
ImageOfReplyDays(plans) ==
    /\ Len(plans) <= Len(ReplyDays)
    /\ \A i \in 1..Len(plans) :
          LET acts == ReplyDays[i]["activities"]
          IN  /\ plans[i].date = CalendarDate(ReplyDays[i]["date"])
              /\ Len(plans[i].activities) = Len(acts)
              /\ \A j \in 1..Len(acts) :
                    /\ plans[i].activities[j].name = acts[j]["name"]
                    /\ plans[i].activities[j].start_time = acts[j]["start_time"]

\* C13: the daily_plans of the Itinerary are the days of the reply, one for one and in
\* the reply's order, and the activities of each day are those of the reply's day in the
\* reply's order, whatever their dates and start times.
C13_OrderPreserved ==
    /\ pc = "loop" => ImageOfReplyDays(daily_plans) /\ Len(daily_plans) = day_index - 1
    /\ pc = "assemble" => ImageOfReplyDays(daily_plans) /\ Len(daily_plans) = Len(ReplyDays)
    /\ pc = "returned"
          => /\ ImageOfReplyDays(result[1].daily_plans)
             /\ Len(result[1].daily_plans) = Len(ReplyDays)

\* an Itinerary whose days are not in the order of their dates and whose first day has
\* its afternoon activity before its morning activity
C13_Witness ==
    /\ pc = "returned"
    /\ Len(result[1].daily_plans) = 2
    /\ result[1].daily_plans[1].date = Date(2024, 6, 2)
    /\ result[1].daily_plans[2].date = Date(2024, 6, 1)
    /\ Len(result[1].daily_plans[1].activities) = 2
    /\ result[1].daily_plans[1].activities[1].start_time = "14:00"
    /\ result[1].daily_plans[1].activities[2].start_time = "09:00"

\* the messages of the three checks of each day, day after day in the order of the reply
RECURSIVE DayChecks(_)
DayChecks(days) ==
    IF days = <<>> THEN <<>>
    ELSE <<ActivitiesError(Head(days)), DayCostError(Head(days)), DayDateError(Head(days))>>
            \o DayChecks(Tail(days))

\* the first message of a sequence of checks that is not empty, or ""
FirstMessage(checks) ==
    LET failed == {i \in 1..Len(checks) : checks[i] # ""}
    IN  IF failed = {} THEN "" ELSE checks[Min(failed)]

\* the checks after the loop: the grand total, then the summary
FinalChecks(data) ==
    <<TotalCostError(SumDayTotals(data["daily_plans"]), data),
      IF "summary" \in DOMAIN data THEN "" ELSE KeyError("summary")>>

\* the message of the first check that a parsed reply fails, in the order: object with
\* daily plans, the checks of the days, the final checks
FirstDataFailure(parsed) ==
    IF parsed.kind # "dict" THEN "'" \o parsed.kind \o "' object has no attribute 'get'"
    ELSE IF NoDailyPlans(parsed.dict) THEN "No daily plans in itinerary"
    ELSE IF FirstMessage(DayChecks(parsed.dict["daily_plans"])) # ""
         THEN FirstMessage(DayChecks(parsed.dict["daily_plans"]))
    ELSE FirstMessage(FinalChecks(parsed.dict))

\* the message of the first check that the reply fails, in the order: empty reply, JSON
\* extraction, the checks of the parsed reply
FirstFailure(text, parsed) ==
    IF text = <<>> THEN "Empty response from LLM"
    ELSE IF ~parsed.ok THEN ParseFailure
    ELSE FirstDataFailure(parsed)

\* C26: the cause that build_itinerary reports for a reply is that of the first check
\* that the reply fails in the order: empty reply, JSON extraction, presence of
\* daily_plans, then for each day in the order of the reply its activities, its
\* total_cost and its date, then the grand total, then the summary; a reply that fails
\* none is returned as an Itinerary.
C26_FirstFailingCheckReported ==
    [][/\ (pc \notin {"invoke", "raised"} /\ pc' = "raised")
          => Cause' = FirstFailure(response_text,
                                   ParseLLMResponse(response_text, response_obj))
       /\ (pc # "returned" /\ pc' = "returned")
          => FirstFailure(response_text,
                          ParseLLMResponse(response_text, response_obj)) = ""]_vars

\* a reply whose total differs from the sum of its days and that has no summary was
\* refused for its total
C26_Witness ==
    /\ pc = "raised"
    /\ Cause = "Total cost mismatch in itinerary"
    /\ "summary" \notin DOMAIN ReplyData
    /\ Len(ReplyDays) = 2

-----------------------------------------------------------------------------
(* parse_trip_preferences (src/tools/parse_trip_prefs.py) *)

\* dict.update and the assignment of one key
Update(d, e) == [k \in (DOMAIN d) \cup (DOMAIN e) |-> IF k \in DOMAIN e THEN e[k] ELSE d[k]]
Put(d, key, v) == [k \in (DOMAIN d) \cup {key} |-> IF k = key THEN v ELSE d[k]]

DigitChar(n) == CHOOSE c \in Digits09 : DigitVal(c) = n
TwoDigits(n) == <<DigitChar(n \div 10), DigitChar(n % 10)>>
FourDigits(n) == TwoDigits(n \div 100) \o TwoDigits(n % 100)

\* date.strftime("%Y-%m-%d"), for a year of four digits
Strftime(date) ==
    FourDigits(date.y) \o <<"-">> \o TwoDigits(date.m) \o <<"-">> \o TwoDigits(date.d)

\* datetime comparison
DateLess(a, b) ==
    \/ a.y < b.y
    \/ a.y = b.y /\ a.m < b.m
    \/ a.y = b.y /\ a.m = b.m /\ a.d < b.d

RequiredFields ==
    <<"destination", "start_date", "end_date", "budget", "travel_style", "interests",
      "accommodation_preference", "transportation_preference">>

\* parse_date: strptime, with the message of its ValueError replaced
ParseDate(date_str) ==
    LET parsed == Strptime(date_str)
    IN  IF parsed.ok THEN parsed ELSE DateError("Date must be in YYYY-MM-DD format")

\* budget values of a user input: a number, a string that float() reads as that number,
\* another string, None, and the float nan
NumericString(n) == <<"numeric string", n>>
JNone == <<"none", 0>>
JNaN == <<"nan", 0>>

\* float(x): the number, or the kind of the error raised
FloatOf(v) ==
    CASE v[1] \in {"number", "numeric string"} -> [ok |-> TRUE, err |-> "", nan |-> FALSE, value |-> v[2]]
      [] v[1] = "nan" -> [ok |-> TRUE, err |-> "", nan |-> TRUE, value |-> 0]
      [] v[1] = "none" -> [ok |-> FALSE, err |-> "TypeError", nan |-> FALSE, value |-> 0]
      [] OTHER -> [ok |-> FALSE, err |-> "ValueError", nan |-> FALSE, value |-> 0]

\* a validation that accepts a budget of zero
validate_budget_non_negative(budget) == ~budget.nan /\ budget.value >= 0

\* validate_budget: budget > 0, which is false for nan
validate_budget(budget) == ~budget.nan /\ budget.value > 0

\* the inner try of the budget: every ValueError and TypeError raised in it, the one of
\* the failed validation included, is replaced by "Invalid budget value"
BudgetError(v) ==
    IF ~FloatOf(v).ok THEN "Invalid budget value"
    ELSE IF ~validate_budget(FloatOf(v)) THEN "Invalid budget value"
    ELSE ""

\* a comparison that lets equal dates through
DatesOutOfOrderNonStrict(start_date, end_date) == DateLess(end_date, start_date)

\* start_date >= end_date
DatesOutOfOrder(start_date, end_date) == ~DateLess(start_date, end_date)

\* checks that do not compare the two dates
FieldsErrorUnordered(start_date, end_date, budget) ==
    IF ~start_date.ok THEN start_date.err
    ELSE IF ~end_date.ok THEN end_date.err
    ELSE BudgetError(budget)

\* the checks of the parsed dates and of the budget, in the order of the code: the
\* message of the first that fails, or ""
FieldsError(start_date, end_date, budget) ==
    IF ~start_date.ok THEN start_date.err
    ELSE IF ~end_date.ok THEN end_date.err
    ELSE IF DatesOutOfOrder(start_date.date, end_date.date)
         THEN "End date must be after start date"
    ELSE BudgetError(budget)

\* the message of the first check of parse_trip_preferences that fails, or ""
PreferencesError(user_input) ==
    LET missing == {i \in 1..Len(RequiredFields) : RequiredFields[i] \notin DOMAIN user_input}
    IN  IF missing # {} THEN "Missing required field: " \o RequiredFields[Min(missing)]
        ELSE FieldsError(ParseDate(user_input["start_date"]),
                         ParseDate(user_input["end_date"]), user_input["budget"])

\* dict.get(key) of a key whose value is itself optional
GetOptional(d, key) == IF key \in DOMAIN d THEN d[key] ELSE None

\* asdict(TripPreferences(...)) of a user input that passed every check
MakeTripPreferences(user_input) ==
    [destination |-> user_input["destination"],
     start_date |-> ParseDate(user_input["start_date"]).date,
     end_date |-> ParseDate(user_input["end_date"]).date,
     budget |-> FloatOf(user_input["budget"]).value,
     travel_style |-> user_input["travel_style"],
     interests |-> user_input["interests"],
     accommodation_preference |-> user_input["accommodation_preference"],
     transportation_preference |-> user_input["transportation_preference"],
     dietary_restrictions |-> GetOptional(user_input, "dietary_restrictions"),
     special_requirements |-> GetOptional(user_input, "special_requirements"),
     destination_insights |-> None,
     personalized_recommendations |-> None]

EmptyDict == [k \in {} |-> None]

\* state.get("user_input", {})
UserInputOf(st) == IF "user_input" \in DOMAIN st THEN st["user_input"] ELSE EmptyDict

\* a parser that writes the destination before it checks the other fields
StateAfterPartial(st, message) ==
    IF message # "" THEN Put(Put(st, "error", message), "destination", "Paris")
    ELSE Without(Update(st, MakeTripPreferences(UserInputOf(st))), "user_input")

\* the state after the try block: the error is stored, or the preferences are written
\* and the user input is removed
StateAfter(st, message) ==
    IF message # "" THEN Put(st, "error", message)
    ELSE Without(Update(st, MakeTripPreferences(UserInputOf(st))), "user_input")

\* parse_trip_preferences(state): the state it returns
parse_trip_preferences(st) == StateAfter(st, PreferencesError(UserInputOf(st)))

\* user inputs: every pair of date strings and every budget, complete, with one required
\* field missing, and without the optional fields
FullUserInput(start_date, end_date, budget) ==
    [destination |-> "Paris", start_date |-> start_date, end_date |-> end_date,
     budget |-> budget, travel_style |-> "moderate", interests |-> <<"culture", "food">>,
     accommodation_preference |-> "hotel", transportation_preference |-> "public",
     dietary_restrictions |-> None, special_requirements |-> Some("late arrival")]

TripDates == {Date(2024, 6, d) : d \in 1..MaxTripDay}

DateStrings ==
    {Strftime(d) : d \in TripDates}
      \cup {<<"2", "0", "2", "4", "-", "6", "-", "2">>,
            <<"2", "0", "2", "4", "/", "0", "6", "/", "0", "1">>}

BudgetInputs ==
    {JNumber(n) : n \in (-1)..MaxBudget}
      \cup {NumericString(-1), NumericString(1), JString, JNone, JNaN}

UserInputs ==
    LET full == {FullUserInput(sd, ed, b) :
                    sd \in DateStrings, ed \in DateStrings, b \in BudgetInputs}
    IN  full
          \cup {Without(u, RequiredFields[i]) : u \in full, i \in 1..Len(RequiredFields)}
          \cup {WithoutAll(u, <<"dietary_restrictions", "special_requirements">>) : u \in full}

AgentStateInputs ==
    {[user_input |-> u] : u \in UserInputs} \cup {[destination_insights |-> None]}

InitPrefs ==
    /\ BuilderIdle
    /\ ToolsIdle
    /\ SearchIdle
    /\ WizardIdle
    /\ state \in AgentStateInputs

\* the state has not been handed to parse_trip_preferences yet
Unparsed == "error" \notin DOMAIN state /\ "destination" \notin DOMAIN state

ParseTripPreferences ==
    /\ Unparsed
    /\ state' = parse_trip_preferences(state)
    /\ UNCHANGED <<tools_vars, builder_vars, search_vars, wizard_vars>>

NextPrefs == ParseTripPreferences

SpecPrefs == InitPrefs /\ [][NextPrefs]_vars

-----------------------------------------------------------------------------
(* Properties of parse_trip_preferences *)

\* the state holds a user input that has the field
InputHas(field) ==
    /\ Unparsed
    /\ "user_input" \in DOMAIN state
    /\ field \in DOMAIN state["user_input"]

\* the budget of the user input reads as a number that is zero or negative
BudgetNotPositive ==
    /\ InputHas("budget")
    /\ state["user_input"]["budget"][1] \in {"number", "numeric string"}
    /\ state["user_input"]["budget"][2] <= 0

\* the parsed preference fields that a successful parse writes
PreferenceFields == DOMAIN MakeTripPreferences(FullUserInput(<<>>, <<>>, JNone))

\* C14: for every input whose budget is zero or negative parse_trip_preferences sets
\* "error" and produces no preferences: no parsed field is written and the user input
\* stays in the state.
C14_NonPositiveBudgetRejected ==
    [][BudgetNotPositive
        => /\ "error" \in DOMAIN state'
           /\ state'["error"] # ""
           /\ PreferenceFields \cap DOMAIN state' = {}
           /\ state'["user_input"] = state["user_input"]]_vars

\* an input that is complete and has ordered dates was rejected for its budget of zero
C14_Witness ==
    /\ "error" \in DOMAIN state
    /\ state["error"] = "Invalid budget value"
    /\ state["user_input"]["budget"] = JNumber(0)

\* both dates of the user input are date strings, and the start is not before the end
StartNotBeforeEnd ==
    /\ InputHas("start_date")
    /\ InputHas("end_date")
    /\ ParseDate(state["user_input"]["start_date"]).ok
    /\ ParseDate(state["user_input"]["end_date"]).ok
    /\ ~DateLess(ParseDate(state["user_input"]["start_date"]).date,
                 ParseDate(state["user_input"]["end_date"]).date)

\* C15 as stated: every input whose start date equals or is later than its end date is
\* rejected with the message "End date must be after start date".
C15_EndDateMessageAlways ==
    [][StartNotBeforeEnd
        => /\ "error" \in DOMAIN state'
           /\ state'["error"] = "End date must be after start date"]_vars

\* the user input has every required field
InputComplete ==
    /\ Unparsed
    /\ "user_input" \in DOMAIN state
    /\ \A i \in 1..Len(RequiredFields) : RequiredFields[i] \in DOMAIN state["user_input"]

\* C15 amended: every input that has all eight required fields and whose start date
\* equals or is later than its end date is rejected with the message "End date must be
\* after start date", equal dates included; an input with such dates that lacks a
\* required field is rejected too, with the message of the missing field.
C15_EndDateAfterStart ==
    [][StartNotBeforeEnd
        => /\ "error" \in DOMAIN state'
           /\ PreferenceFields \cap DOMAIN state' = {}
           /\ state'["error"] =
                 IF InputComplete THEN "End date must be after start date"
                 ELSE "Missing required field: "
                         \o CHOOSE f \in {RequiredFields[i] : i \in 1..Len(RequiredFields)} :
                                /\ f \notin DOMAIN state["user_input"]
                                /\ \A i, j \in 1..Len(RequiredFields) :
                                      (RequiredFields[j] = f /\ i < j)
                                          => RequiredFields[i] \in DOMAIN state["user_input"]]_vars

\* an input with equal start and end dates and a valid budget was rejected for its dates
C15_Witness ==
    /\ "error" \in DOMAIN state
    /\ state["error"] = "End date must be after start date"
    /\ state["user_input"]["start_date"] = state["user_input"]["end_date"]
    /\ state["user_input"]["budget"] = JNumber(1)

\* C29: a call of parse_trip_preferences that fails changes the state only by setting
\* "error": the user input and every other key keep their values and no preference
\* field is written; a call that succeeds writes all twelve preference fields, removes
\* the user input and leaves the other keys alone.  No state holds a part of the
\* preference fields.
C29_AllOrNothing ==
    [][Unparsed =>
         IF "error" \in DOMAIN state'
         THEN /\ DOMAIN state' = DOMAIN state \cup {"error"}
              /\ \A k \in DOMAIN state : state'[k] = state[k]
              /\ PreferenceFields \cap DOMAIN state' = PreferenceFields \cap DOMAIN state
         ELSE /\ DOMAIN state' = (DOMAIN state \cup PreferenceFields) \ {"user_input"}
              /\ \A k \in DOMAIN state \ (PreferenceFields \cup {"user_input"}) :
                    state'[k] = state[k]
              /\ state'["destination"] = state["user_input"]["destination"]]_vars

\* a successful parse: every preference field is in the state and the user input is gone
C29_Witness ==
    /\ PreferenceFields \subseteq DOMAIN state
    /\ "user_input" \notin DOMAIN state
    /\ "error" \notin DOMAIN state
    /\ state["budget"] = 2

-----------------------------------------------------------------------------
(* search_hotels (src/tools/search_hotels.py) *)

(***************************************************************************)
(* The content of a search result is a sequence of tokens: a number        *)
(* ("0", "3", "4.5", "5", "50", "120"), "/", "$", a blank " ", the word     *)
(* "pool" and another word "w".  Its title is a sequence of words and of   *)
(* the separator "DASH" (the text " - ").  Ratings and prices are counted  *)
(* in tenths.                                                              *)
(***************************************************************************)
NumberTokens == {"0", "3", "4.5", "5", "50", "120"}

\* float() of a number token, in tenths
TokenTenths(t) ==
    CASE t = "0" -> 0 [] t = "3" -> 30 [] t = "4.5" -> 45
      [] t = "5" -> 50 [] t = "50" -> 500 [] t = "120" -> 1200

\* the first position from i on that holds no blank
RECURSIVE SkipBlanks(_, _)
SkipBlanks(s, i) == IF i <= Len(s) /\ s[i] = " " THEN SkipBlanks(s, i + 1) ELSE i

\* (\d+(?:\.\d)?)\s*\/\s*5 matches from the number at position i
RatingMatchesAt(s, i) ==
    /\ s[i] \in NumberTokens
    /\ LET j == SkipBlanks(s, i + 1)
       IN  /\ j <= Len(s)
           /\ s[j] = "/"
           /\ LET k == SkipBlanks(s, j + 1)
              IN  k <= Len(s) /\ s[k] \in {"5", "50"}

\* _extract_rating: the number of the first match, or None
ExtractRating(text) ==
    LET hits == {i \in 1..Len(text) : RatingMatchesAt(text, i)}
    IN  IF hits = {} THEN None ELSE Some(TokenTenths(text[Min(hits)]))

\* \$(\d+(?:\.\d{2})?) takes the digits after the "$"; one decimal is not part of it
PriceTenths(t) == (TokenTenths(t) \div 10) * 10

\* _extract_price: the number of the first match, or None
ExtractPrice(text) ==
    LET hits == {i \in 1..(Len(text) - 1) : text[i] = "$" /\ text[i + 1] \in NumberTokens}
    IN  IF hits = {} THEN None ELSE Some(PriceTenths(text[Min(hits) + 1]))

\* the text before the first " - "
BeforeDash(title) ==
    LET dashes == {i \in 1..Len(title) : title[i] = "DASH"}
    IN  IF dashes = {} THEN title ELSE SubSeq(title, 1, Min(dashes) - 1)

\* result.get(key, ""), for a text
GetText(d, key) == IF key \in DOMAIN d THEN d[key] ELSE <<>>

\* _parse_hotel_from_search_result; of the amenity keywords the model keeps "pool"
ParseHotelFromSearchResult(r) ==
    [name |-> BeforeDash(GetText(r, "title")),
     address |-> None,
     price_per_night |-> ExtractPrice(GetText(r, "content")),
     rating |-> ExtractRating(GetText(r, "content")),
     amenities |-> IF \E i \in 1..Len(GetText(r, "content")) : GetText(r, "content")[i] = "pool"
                   THEN <<"pool">> ELSE <<>>,
     booking_url |-> Get(r, "url"),
     description |-> GetText(r, "content")]

\* key=lambda x: x.rating or 0
RatingKey(h) == IF h.rating = None THEN 0 ELSE h.rating[1]

\* list.sort(key=..., reverse=True) is stable: the element goes after every element
\* whose key is not smaller
InsertByRating(sorted, h) ==
    LET before == {i \in 1..Len(sorted) : RatingKey(sorted[i]) >= RatingKey(h)}
        n == IF before = {} THEN 0 ELSE CHOOSE i \in before : \A j \in before : j <= i
    IN  SubSeq(sorted, 1, n) \o <<h>> \o SubSeq(sorted, n + 1, Len(sorted))

\* the sort without reverse=True
RECURSIVE SortByRatingAscending(_)
SortByRatingAscending(list) ==
    IF list = <<>> THEN <<>>
    ELSE LET rest == SortByRatingAscending(SubSeq(list, 1, Len(list) - 1))
             h == list[Len(list)]
             before == {i \in 1..Len(rest) : RatingKey(rest[i]) <= RatingKey(h)}
             n == IF before = {} THEN 0 ELSE CHOOSE i \in before : \A j \in before : j <= i
         IN  SubSeq(rest, 1, n) \o <<h>> \o SubSeq(rest, n + 1, Len(rest))

\* hotels.sort(key=lambda x: x.rating or 0, reverse=True)
RECURSIVE SortByRating(_)
SortByRating(list) ==
    IF list = <<>> THEN <<>>
    ELSE InsertByRating(SortByRating(SubSeq(list, 1, Len(list) - 1)), list[Len(list)])

Returned(list) == [ok |-> TRUE, list |-> list, error |-> ""]
HotelSearchError(msg) == [ok |-> FALSE, list |-> <<>>, error |-> msg]

\* a search that returns the empty list for a response without results
search_hotels_allows_empty(prefs, resp) ==
    IF prefs.destination = ""
    THEN HotelSearchError("Failed to parse hotel data: Destination is required")
    ELSE IF ~resp.ok THEN HotelSearchError("API request failed")
    ELSE Returned(SortByRating([i \in 1..Len(resp.results) |->
                                    ParseHotelFromSearchResult(resp.results[i])]))

\* search_hotels(trip_prefs) for the response resp of the search request
search_hotels(prefs, resp) ==
    IF prefs.destination = ""
    THEN HotelSearchError("Failed to parse hotel data: Destination is required")
    ELSE IF ~resp.ok THEN HotelSearchError("API request failed")
    ELSE IF resp.results = <<>> THEN HotelSearchError("No hotels found matching your criteria")
    ELSE Returned(SortByRating([i \in 1..Len(resp.results) |->
                                    ParseHotelFromSearchResult(resp.results[i])]))

\* search results: titles with and without a suffix, contents with and without a rating
\* and a price, a result without title and content
Titles == {<<"Ritz", "DASH", "Booking">>, <<"Ibis">>}
Contents ==
    {<<"w">>,
     <<"4.5", "/", "5", "pool">>,
     <<"3", " ", "/", " ", "5", "w", "$", "120">>,
     <<"$", "4.5", "w", "0", "/", "5">>,
     <<"$", "120", "/", "50">>,
     <<"$", " ", "120", "w", "4.5", "/", " ", "3", "/", "5">>}

SearchResults ==
    {[title |-> t, content |-> c, url |-> "https://booking.com/h"] :
        t \in Titles, c \in Contents}
      \cup {[url |-> "https://hotels.com/h"]}

Responses ==
    {[ok |-> TRUE, results |-> rs] : rs \in SeqsUpTo(SearchResults, MaxResults)}
      \cup {[ok |-> FALSE, results |-> <<>>]}

SearchPreferences ==
    TripPreferencesInputs \cup {[p EXCEPT !.destination = ""] : p \in TripPreferencesInputs}

InitSearch ==
    /\ BuilderIdle
    /\ ToolsIdle
    /\ PrefsIdle
    /\ WizardIdle
    /\ search_response \in Responses
    /\ hotels = None

SearchHotels ==
    /\ hotels = None
    /\ \E prefs \in SearchPreferences : hotels' = search_hotels(prefs, search_response)
    /\ UNCHANGED <<tools_vars, builder_vars, prefs_vars, wizard_vars, search_response>>

NextSearch == SearchHotels

SpecSearch == InitSearch /\ [][NextSearch]_vars

-----------------------------------------------------------------------------
(* Properties of search_hotels *)

\* the number of places of a list that hold x
Count(list, x) == Cardinality({i \in 1..Len(list) : list[i] = x})

\* C20: the list search_hotels returns is in non-increasing order of rating, a hotel
\* without an extracted rating counting as rated 0, and it holds exactly one Hotel for
\* each search result: it is a rearrangement of the Hotels parsed from the results.
C20_SortedByRating ==
    (hotels # None /\ hotels.ok)
        => LET parsed == [i \in 1..Len(search_response.results) |->
                              ParseHotelFromSearchResult(search_response.results[i])]
           IN  /\ Len(hotels.list) = Len(search_response.results)
               /\ \A i, j \in 1..Len(hotels.list) :
                     i < j => (IF hotels.list[i].rating = None THEN 0
                               ELSE hotels.list[i].rating[1])
                                 >= (IF hotels.list[j].rating = None THEN 0
                                     ELSE hotels.list[j].rating[1])
               /\ \A i \in 1..Len(parsed) :
                     Count(hotels.list, parsed[i]) = Count(parsed, parsed[i])

\* three results arrived unrated, rated 3 and rated 4.5, and were returned in the order
\* 4.5, 3, unrated
C20_Witness ==
    /\ hotels # None
    /\ hotels.ok
    /\ Len(hotels.list) = 3
    /\ ExtractRating(GetText(search_response.results[1], "content")) = None
    /\ ExtractRating(GetText(search_response.results[2], "content")) = Some(30)
    /\ ExtractRating(GetText(search_response.results[3], "content")) = Some(45)
    /\ hotels.list[1].rating = Some(45)
    /\ hotels.list[2].rating = Some(30)
    /\ hotels.list[3].rating = None

-----------------------------------------------------------------------------
(* The wizard (src/app.py) *)

(***************************************************************************)
(* One action is one run of main: the script runs from the top after       *)
(* st.rerun() and after each interaction of the user with a widget of the  *)
(* page.  A run that the guard of an action describes as following an      *)
(* interaction needs the page that shows the widget.  The API keys are     *)
(* taken to be set: without them main renders instructions and touches     *)
(* nothing.                                                                *)
(***************************************************************************)

\* build_itinerary as a function of its arguments and of the reply: the first error of
\* the days in the order of the loop, or ""
RECURSIVE DaysError(_)
DaysError(days) ==
    IF days = <<>> THEN ""
    ELSE IF ActivitiesError(Head(days)) # "" THEN ActivitiesError(Head(days))
    ELSE IF DayCostError(Head(days)) # "" THEN DayCostError(Head(days))
    ELSE IF DayDateError(Head(days)) # "" THEN DayDateError(Head(days))
    ELSE DaysError(Tail(days))

\* the total accumulated by the loop over days that raise no error
RECURSIVE AccumulatedTotal(_)
AccumulatedTotal(days) ==
    IF days = <<>> THEN 0
    ELSE NumberOf(Head(days)["total_cost"]) + AccumulatedTotal(Tail(days))

\* the message of the first failure of the checks of a parsed reply object, or ""
DataFailure(data) ==
    IF NoDailyPlans(data) THEN "No daily plans in itinerary"
    ELSE IF DaysError(data["daily_plans"]) # "" THEN DaysError(data["daily_plans"])
    ELSE IF TotalCostError(AccumulatedTotal(data["daily_plans"]), data) # ""
         THEN TotalCostError(AccumulatedTotal(data["daily_plans"]), data)
    ELSE IF "summary" \notin DOMAIN data THEN KeyError("summary")
    ELSE ""

\* the message of the first failure of build_itinerary for a reply text and the value
\* parsed from it, or ""
BuildFailure(text, parsed) ==
    IF text = <<>> THEN "Empty response from LLM"
    ELSE IF ~parsed.ok THEN ParseFailure
    ELSE IF parsed.kind # "dict" THEN "'" \o parsed.kind \o "' object has no attribute 'get'"
    ELSE DataFailure(parsed.dict)

\* the outcome of build_itinerary for a failure message, or for the parsed reply object
BuildOutcome(prefs, h, message, parsed) ==
    IF message # ""
    THEN [ok |-> FALSE, itinerary |-> None, error |-> BuildError(message)]
    ELSE [ok |-> TRUE,
          itinerary |-> MakeItinerary(prefs, h,
                                      [i \in 1..Len(parsed.dict["daily_plans"]) |->
                                          MakeDayPlan(parsed.dict["daily_plans"][i])],
                                      AccumulatedTotal(parsed.dict["daily_plans"]),
                                      parsed.dict),
          error |-> BuildError("")]

\* build_itinerary(prefs, h, attractions) when the language model replies with reply
build_itinerary(prefs, h, reply) ==
    BuildOutcome(prefs, h,
                 BuildFailure(reply[1], ParseLLMResponse(reply[1], reply[2])),
                 ParseLLMResponse(reply[1], reply[2]))

\* initialize_session_state on a session without keys
InitialSession ==
    [current_step |-> "preferences", trip_prefs |-> None, hotels |-> None,
     attractions |-> None, itinerary |-> None]

\* st.session_state at the start of the handlers: initialize_session_state has run
Initialized(session) == IF DOMAIN session = {} THEN InitialSession ELSE session

CurrentStep == Initialized(session_state)["current_step"]

Page(view, message, widgets) == [view |-> view, error |-> message, widgets |-> widgets]

\* the values of the preference form
Forms ==
    [destination : {"", "Paris"}, start_date : TripDates, end_date : TripDates,
     budget : 0..MaxBudget]

\* the preferences dict built from the form
Preferences(form) ==
    [destination |-> form.destination,
     start_date |-> Strftime(form.start_date),
     end_date |-> Strftime(form.end_date),
     budget |-> JNumber(form.budget),
     travel_style |-> "moderate",
     interests |-> <<"culture", "food">>,
     accommodation_preference |-> "hotel",
     transportation_preference |-> "public",
     dietary_restrictions |-> None,
     special_requirements |-> None]

\* parsed_state["error"] if "error" in parsed_state, or ""
ErrorIn(parsed_state) ==
    IF "error" \in DOMAIN parsed_state THEN parsed_state["error"] ELSE ""

\* a handler that trusts the form to hold a destination
SubmissionErrorParseOnly(form) ==
    ErrorIn(parse_trip_preferences([user_input |-> Preferences(form)]))

\* the message get_trip_preferences shows for a submitted form, or ""
SubmissionError(form) ==
    IF form.destination = "" THEN "Please enter a destination"
    ELSE ErrorIn(parse_trip_preferences([user_input |-> Preferences(form)]))

\* TripPreferences(destination=parsed_state["destination"], ...)
TripPreferencesFrom(parsed_state) ==
        [destination |-> parsed_state["destination"],
         start_date |-> parsed_state["start_date"],
         end_date |-> parsed_state["end_date"],
         budget |-> parsed_state["budget"],
         travel_style |-> parsed_state["travel_style"],
         interests |-> parsed_state["interests"],
         accommodation_preference |-> parsed_state["accommodation_preference"],
         transportation_preference |-> parsed_state["transportation_preference"],
         dietary_restrictions |-> GetOptional(parsed_state, "dietary_restrictions"),
         special_requirements |-> GetOptional(parsed_state, "special_requirements"),
         destination_insights |-> None,
         personalized_recommendations |-> None]

StoredTripPreferences(form) ==
    TripPreferencesFrom(parse_trip_preferences([user_input |-> Preferences(form)]))

\* the responses of the hotel search seen by the wizard
WizardResults ==
    {[title |-> <<"Ritz", "DASH", "Booking">>,
      content |-> <<"3", " ", "/", " ", "5", "w", "$", "120">>, url |-> "https://booking.com/h"],
     [title |-> <<"Ibis">>,
      content |-> <<"$", "4.5", "w", "0", "/", "5">>, url |-> "https://booking.com/h"],
     [title |-> <<"Ibis">>,
      content |-> <<"4.5", "/", "5", "pool">>, url |-> "https://booking.com/h"]}

WizardResponses ==
    {[ok |-> TRUE, results |-> rs] : rs \in SeqsUpTo(WizardResults, MaxHotels)}
      \cup {[ok |-> FALSE, results |-> <<>>]}

\* the outcomes of search_attractions: a list that is not empty, or an error
Attraction(name, category) == [name |-> name, category |-> category, visit_duration |-> None]
AttractionOutcomes ==
    {Returned(<<Attraction("Louvre", "museum")>>),
     Returned(<<Attraction("Louvre", "museum"), Attraction("Eiffel Tower", "landmark")>>),
     Returned(<<Attraction("Louvre", "museum"), Attraction("Louvre", "landmark")>>),
     [ok |-> FALSE, list |-> <<>>, error |-> "Unexpected error: No results found"]}

\* the replies of the language model seen by the wizard
WizardReplies ==
    {Reply(<<"OBJ">>, SampleObject),
     Reply(JsonFenced(<<"OBJ">>), ReplyObject(<<LateDay, EarlyDay>>, JNumber(3), <<"P">>)),
     Reply(<<"OBJ">>, ReplyObject(<<EarlyDay>>, JNumber(4), <<"P">>)),
     Reply(<<>>, SampleObject)}

InitWizard ==
    /\ BuilderIdle
    /\ ToolsIdle
    /\ PrefsIdle
    /\ SearchIdle
    /\ session_state = EmptyDict
    /\ page = Page("none", "", None)
    /\ selected_hotel_obj = None

\* main's handler of an exception raised by the step: the message and the button
\* "Start Over".  The page of an exception shows no other widget, so a run that starts
\* from it follows a press of that button: when the step raises again the button reads
\* as pressed and the session is cleared before the rerun.
RaiseInMain(session, msg) ==
    IF page.view = "exception"
    THEN /\ session_state' = EmptyDict
         /\ page' = Page("exception", "An error occurred: " \o msg, None)
         /\ selected_hotel_obj' = None
    ELSE /\ session_state' = session
         /\ page' = Page("exception", "An error occurred: " \o msg, None)
         /\ UNCHANGED selected_hotel_obj

\* the form was submitted: the message is shown, or the preferences are stored and the
\* wizard moves on
Submitted(form, message) ==
    IF message # ""
    THEN /\ page' = Page("preferences", message, Some(form))
         /\ UNCHANGED session_state
    ELSE /\ session_state' =
               [session_state EXCEPT !.trip_prefs = Some(StoredTripPreferences(form)),
                                     !.current_step = "searching"]
         /\ page' = Page("preferences", "", Some(form))

\* a run of main at the step preferences: the form is rendered, or it was submitted
GetTripPreferences ==
    /\ CurrentStep = "preferences"
    /\ \/ /\ page.view # "preferences"
          /\ session_state' = Initialized(session_state)
          /\ page' = Page("preferences", "", None)
       \/ /\ page.view = "preferences"
          /\ \E form \in Forms : Submitted(form, SubmissionError(form))
    /\ UNCHANGED selected_hotel_obj
    /\ UNCHANGED <<tools_vars, builder_vars, prefs_vars, search_vars>>

\* a search that hands over to the generation at once
SearchedSkipsSelecting(searched, found) ==
    IF ~searched.ok THEN RaiseInMain(session_state, searched.error)
    ELSE IF ~found.ok
         THEN RaiseInMain([session_state EXCEPT !.hotels = Some(searched.list)], found.error)
    ELSE /\ session_state' =
               [session_state EXCEPT !.hotels = Some(searched.list),
                                     !.attractions = Some(found.list),
                                     !.current_step = "generating"]
         /\ page' = Page("searching", "", None)
         /\ UNCHANGED selected_hotel_obj

\* the two searches have ended: the first error is raised, or both lists are stored and
\* the wizard moves on; the hotels are stored before the attractions are searched
Searched(searched, found) ==
    IF ~searched.ok THEN RaiseInMain(session_state, searched.error)
    ELSE IF ~found.ok
         THEN RaiseInMain([session_state EXCEPT !.hotels = Some(searched.list)], found.error)
    ELSE /\ session_state' =
               [session_state EXCEPT !.hotels = Some(searched.list),
                                     !.attractions = Some(found.list),
                                     !.current_step = "selecting"]
         /\ page' = Page("searching", "", None)
         /\ UNCHANGED selected_hotel_obj

\* a run of main at the step searching
SearchHotelsAndAttractions ==
    /\ CurrentStep = "searching"
    /\ \E resp \in WizardResponses, found \in AttractionOutcomes :
          Searched(search_hotels(session_state.trip_prefs[1], resp), found)
    /\ UNCHANGED <<tools_vars, builder_vars, prefs_vars, search_vars>>

\* f"{h.name} - ${h.price_per_night:.2f}/night": the name and the price
Label(h) == <<h.name, h.price_per_night[1]>>

\* the keys of hotel_options
Labels(list) == {Label(list[i]) : i \in 1..Len(list)}

\* hotel_options[label]: of the hotels with one label the dict keeps the last
HotelOption(list, label) ==
    LET with == {i \in 1..Len(list) : Label(list[i]) = label}
    IN  list[CHOOSE i \in with : \A j \in with : j <= i]

\* the values selected_hotel_obj can take for a list of hotels with prices
HotelChoices(list) ==
    IF list = <<>> THEN {None} ELSE {Some(HotelOption(list, l)) : l \in Labels(list)}

\* a run of main at the step selecting: the page is rendered with the selection of the
\* user, who may have pressed "Generate Itinerary"
SelectHotelAndAttractions ==
    /\ CurrentStep = "selecting"
    /\ LET list == session_state.hotels[1]
           found == session_state.attractions[1]
       IN  IF \E i \in 1..Len(list) : list[i].price_per_night = None
           THEN RaiseInMain(session_state,
                            "unsupported format string passed to NoneType.__format__")
           ELSE IF \E i, j \in 1..Len(found) : i < j /\ found[i].name = found[j].name
           THEN RaiseInMain(session_state, "There are multiple widgets with the same key")
           ELSE \E choice \in HotelChoices(list), selected_attractions \in SUBSET (1..Len(found)),
                   pressed \in BOOLEAN :
                   /\ pressed => page.view = "selecting"
                   /\ selected_hotel_obj' = choice
                   /\ IF pressed /\ selected_attractions # {}
                      THEN /\ session_state' = [session_state EXCEPT !.current_step = "generating"]
                           /\ page' = Page("selecting", "", None)
                      ELSE /\ page' = Page("selecting",
                                           IF pressed THEN "Please select at least one attraction"
                                           ELSE "", None)
                           /\ UNCHANGED session_state
    /\ UNCHANGED <<tools_vars, builder_vars, prefs_vars, search_vars>>

\* the outcomes of the call of build_itinerary made by generate_itinerary
BuildOutcomes(prefs, h) ==
    {build_itinerary(prefs, h, r) : r \in WizardReplies}
      \cup {[ok |-> FALSE, itinerary |-> None, error |-> BuildError("llm client error")]}

\* a run of main at the step generating
GenerateItinerary ==
    /\ CurrentStep = "generating"
    /\ LET list == session_state.hotels[1]
           first == IF list # <<>> THEN Some(list[1]) ELSE None
       IN  \E outcome \in BuildOutcomes(session_state.trip_prefs[1], first) :
              IF outcome.ok
              THEN /\ session_state' = [session_state EXCEPT !.itinerary = outcome.itinerary,
                                                             !.current_step = "displaying"]
                   /\ page' = Page("generating", "", None)
                   /\ UNCHANGED selected_hotel_obj
              ELSE RaiseInMain(session_state, outcome.error.prefix \o outcome.error.cause)
    /\ UNCHANGED <<tools_vars, builder_vars, prefs_vars, search_vars>>

\* a run of main at the step displaying
DisplayItinerary ==
    /\ CurrentStep = "displaying"
    /\ page.view # "itinerary"
    /\ page' = Page("itinerary",
                    IF session_state.itinerary # None THEN ""
                    ELSE "No itinerary available. Please generate an itinerary first.",
                    None)
    /\ UNCHANGED <<session_state, selected_hotel_obj>>
    /\ UNCHANGED <<tools_vars, builder_vars, prefs_vars, search_vars>>

NextWizard ==
    \/ GetTripPreferences
    \/ SearchHotelsAndAttractions
    \/ SelectHotelAndAttractions
    \/ GenerateItinerary
    \/ DisplayItinerary

SpecWizard == InitWizard /\ [][NextWizard]_vars

(***************************************************************************)
(* Properties of the wizard *)
(***************************************************************************)

\* the preferences and the itinerary of the session, None before they are stored
SessionTripPrefs == Initialized(session_state)["trip_prefs"]
SessionItinerary == Initialized(session_state)["itinerary"]

\* C16: every TripPreferences stored in the session, which is the one read by the
\* searches and by build_itinerary and copied into the itinerary, has its start date
\* before its end date and a budget above zero, whatever forms were submitted.
C16_StoredPreferencesValid ==
    /\ SessionTripPrefs # None =>
          /\ DateLess(SessionTripPrefs[1].start_date, SessionTripPrefs[1].end_date)
          /\ SessionTripPrefs[1].budget > 0
    /\ SessionItinerary # None =>
          DateLess(SessionItinerary[1].start_date, SessionItinerary[1].end_date)

\* preferences were stored from a form and the searches have read them
C16_Witness ==
    /\ CurrentStep = "selecting"
    /\ SessionTripPrefs # None
    /\ SessionTripPrefs[1].start_date = [y |-> 2024, m |-> 6, d |-> 1]
    /\ SessionTripPrefs[1].end_date = [y |-> 2024, m |-> 6, d |-> 2]
    /\ SessionTripPrefs[1].budget = 1

\* the form fails the validation of get_trip_preferences
FailsValidation(form) ==
    \/ form.destination = ""
    \/ "error" \in DOMAIN parse_trip_preferences([user_input |-> Preferences(form)])

\* C17: when a submitted form fails validation (its destination is empty, or
\* parse_trip_preferences returns a state with "error"), current_step stays
\* "preferences", trip_prefs stays unset, no search has stored anything, and a message
\* is shown.
C17_FailedSubmissionStays ==
    [][(/\ CurrentStep = "preferences"
        /\ page.view = "preferences"
        /\ page'.widgets # None
        /\ FailsValidation(page'.widgets[1]))
       => /\ Initialized(session_state')["current_step"] = "preferences"
          /\ Initialized(session_state')["trip_prefs"] = None
          /\ Initialized(session_state')["hotels"] = None
          /\ Initialized(session_state')["attractions"] = None
          /\ page'.error # ""]_vars

\* a form with a destination and a budget of zero was submitted and refused
C17_Witness ==
    /\ page.view = "preferences"
    /\ page.widgets # None
    /\ page.widgets[1].destination = "Paris"
    /\ page.widgets[1].budget = 0
    /\ page.error = "Invalid budget value"
    /\ CurrentStep = "preferences"
    /\ SessionTripPrefs = None

Steps == <<"preferences", "searching", "selecting", "generating", "displaying">>
StepIndex(step) == CHOOSE i \in 1..Len(Steps) : Steps[i] = step

\* a run that followed a press of "Start Over" has cleared the session
StartedOver ==
    /\ page.view = "exception"
    /\ session_state' = EmptyDict

\* C18: in every run of main the step stays where it is or advances to the next of
\* preferences, searching, selecting, generating, displaying; the only other change is
\* the one of "Start Over" on the page of an error, which clears the session and so
\* returns it to "preferences".
C18_StepsAdvanceOneAtATime ==
    [][\/ StepIndex(Initialized(session_state')["current_step"]) = StepIndex(CurrentStep)
       \/ StepIndex(Initialized(session_state')["current_step"]) = StepIndex(CurrentStep) + 1
       \/ StartedOver]_vars

\* a session cleared by "Start Over": only that run leaves the page of an error with a
\* session without keys
C18_Witness ==
    /\ page.view = "exception"
    /\ session_state = EmptyDict

\* C19: the hotel of the itinerary stored by the wizard is the hotel the user selected
\* in the selection step.
C19_ItineraryHotelIsSelection ==
    SessionItinerary # None => SessionItinerary[1].hotel = selected_hotel_obj


\* the wizard is at the step or at a later one
StepAtLeast(step) == StepIndex(CurrentStep) >= StepIndex(step)

SessionHotels == Initialized(session_state)["hotels"]
SessionAttractions == Initialized(session_state)["attractions"]

\* C27: in every session state, from the step searching on trip_prefs is set; from the
\* step selecting on hotels and attractions are set and not empty; at the step
\* displaying the itinerary is set, so that display_itinerary never shows "No itinerary
\* available".
C27_StepsHaveTheirData ==
    /\ StepAtLeast("searching") => SessionTripPrefs # None
    /\ StepAtLeast("selecting") =>
          /\ SessionHotels # None
          /\ SessionHotels[1] # <<>>
          /\ SessionAttractions # None
          /\ SessionAttractions[1] # <<>>
    /\ CurrentStep = "displaying" =>
          /\ SessionItinerary # None
          /\ page.view = "itinerary" => page.error = ""

\* the itinerary is displayed: every step has stored its data
C27_Witness ==
    /\ CurrentStep = "displaying"
    /\ page.view = "itinerary"
    /\ Len(SessionHotels[1]) = 2
    /\ Len(SessionAttractions[1]) = 2
    /\ SessionItinerary # None

\* C28: whatever lists of hotels and attractions the searches stored, hotels without a
\* price included, the run of main at the step selecting renders the selection page, on
\* which the user ticks attractions and presses "Generate Itinerary": the step never
\* ends in main's exception handler.
C28_SelectionPageRenders ==
    CurrentStep = "selecting" => page.view # "exception"

-----------------------------------------------------------------------------
(* The formatter (src/utils/formatter.py) *)

\* date.toordinal(): the number of the day, 0001-01-01 being day 1
RECURSIVE DaysBeforeMonth(_, _)
DaysBeforeMonth(y, m) ==
    IF m = 1 THEN 0 ELSE DaysBeforeMonth(y, m - 1) + DaysInMonth(y, m - 1)

ToOrdinal(date) ==
    (date.y - 1) * 365 + (date.y - 1) \div 4 - (date.y - 1) \div 100 + (date.y - 1) \div 400
      + DaysBeforeMonth(date.y, date.m) + date.d

\* (end_date - start_date).days
DaysBetween(start_date, end_date) == ToOrdinal(end_date) - ToOrdinal(start_date)

DayNames ==
    <<"Monday", "Tuesday", "Wednesday", "Thursday", "Friday", "Saturday", "Sunday">>

\* date.strftime("%A")
DayName(date) == DayNames[((ToOrdinal(date) + 6) % 7) + 1]

\* the value of a call: what it returned, or the error it raised
Value(v) == [ok |-> TRUE, value |-> v, error |-> ""]
Raised(msg) == [ok |-> FALSE, value |-> None, error |-> msg]

format_overview(it) ==
    [destination |-> it.destination,
     duration |-> DaysBetween(it.start_date, it.end_date),
     total_cost |-> it.total_cost,
     travel_style |-> it.travel_style,
     interests |-> it.interests,
     summary |-> it.summary,
     hotel |-> IF it.hotel = None THEN None
               ELSE Some([name |-> it.hotel[1].name, address |-> it.hotel[1].address,
                          rating |-> it.hotel[1].rating,
                          price_per_night |-> it.hotel[1].price_per_night])]

format_daily_plans(it) ==
    [i \in 1..Len(it.daily_plans) |->
        [date |-> Strftime(it.daily_plans[i].date),
         day_name |-> DayName(it.daily_plans[i].date),
         total_cost |-> it.daily_plans[i].total_cost,
         activities |-> it.daily_plans[i].activities,
         notes |-> it.daily_plans[i].notes]]

\* the activities of all days, in order
RECURSIVE AllActivities(_)
AllActivities(plans) ==
    IF plans = <<>> THEN <<>> ELSE Head(plans).activities \o AllActivities(Tail(plans))

\* if activity.cost: a cost that is neither None nor zero
HasCost(activity) == activity.cost # None /\ activity.cost[1] # 0

RECURSIVE CategoryCost(_, _)
CategoryCost(acts, category) ==
    IF acts = <<>> THEN 0
    ELSE (IF HasCost(Head(acts)) /\ Head(acts).category = category
          THEN Head(acts).cost[1] ELSE 0)
            + CategoryCost(Tail(acts), category)

\* category_costs: the categories of the activities that have a cost, with their sums
CategoryCosts(acts) ==
    [c \in {acts[i].category : i \in {j \in 1..Len(acts) : HasCost(acts[j])}} |->
        CategoryCost(acts, c)]

\* itinerary.total_cost / len(itinerary.daily_plans), kept as a fraction
AverageDailyCost(total, days) ==
    IF days = 0 THEN Raised("float division by zero")
    ELSE Value([num |-> total, den |-> days])

\* the dict of format_budget_analysis for an average that was computed
BudgetAnalysis(it, average) ==
    IF ~average.ok THEN average
    ELSE Value([category_costs |-> CategoryCosts(AllActivities(it.daily_plans)),
                daily_costs |-> [i \in 1..Len(it.daily_plans) |->
                                    [date |-> Strftime(it.daily_plans[i].date),
                                     cost |-> it.daily_plans[i].total_cost]],
                total_cost |-> it.total_cost,
                average_daily_cost |-> average.value])

format_budget_analysis(it) ==
    BudgetAnalysis(it, AverageDailyCost(it.total_cost, Len(it.daily_plans)))

\* the unique categories; their sorted order is not modelled
format_activity_categories(it) ==
    {AllActivities(it.daily_plans)[i].category : i \in 1..Len(AllActivities(it.daily_plans))}

\* the dict of format_for_display for a budget analysis that was computed
DisplayData(it, budget_analysis) ==
    IF ~budget_analysis.ok THEN budget_analysis
    ELSE Value([overview |-> format_overview(it),
                daily_plans |-> format_daily_plans(it),
                budget_analysis |-> budget_analysis.value,
                activity_categories |-> format_activity_categories(it)])

format_for_display(it) == DisplayData(it, format_budget_analysis(it))

-----------------------------------------------------------------------------
(* The exporter (src/tools/export_itinerary.py) *)

(***************************************************************************)
(* The output directory is a dict from file names to files.  A file name   *)
(* is a sequence of parts, the extension (".json", ".html", ".pdf") being  *)
(* one part.  A string that takes the place of a date is the record        *)
(* [iso |-> characters].                                                   *)
(***************************************************************************)

\* datetime.now().strftime('%Y%m%d_%H%M%S'): the calls fall in one second and share the
\* stamp
Stamps == {"20240601_120000"}

\* f"itinerary_{itinerary.destination}_{stamp}"
DefaultBase(it, stamp) == <<"itinerary_", it.destination, "_", stamp>>

\* filename.replace('.pdf', '.html'): every occurrence is replaced
ReplacePdf(name) == [i \in 1..Len(name) |-> IF name[i] = ".pdf" THEN ".html" ELSE name[i]]

\* datetime.isoformat() of a date at midnight
IsoFormat(date) ==
    [iso |-> Strftime(date) \o <<"T", "0", "0", ":", "0", "0", ":", "0", "0">>]

\* a conversion whose result shares the list of day plans with the object
asdict_by_reference(obj) == [dict |-> obj, aliases |-> {"daily_plans"}]

\* dataclasses.asdict: new dicts and lists at every level, so that no container of the
\* result is a container of the object
asdict(obj) == [dict |-> obj, aliases |-> {}]

\* the day plans after day_plan["date"] = day_plan["date"].isoformat() for each of them
IsoDays(plans) == [i \in 1..Len(plans) |-> [plans[i] EXCEPT !.date = IsoFormat(plans[i].date)]]

\* itinerary_dict after the three conversions of its dates
WithIsoDates(d) ==
    [d EXCEPT !.start_date = IsoFormat(d.start_date),
              !.end_date = IsoFormat(d.end_date),
              !.daily_plans = IsoDays(d.daily_plans)]

\* the Itinerary after the assignments to itinerary_dict: an assignment reaches the
\* object through a container that the dict shares with it
AfterDictWrites(obj, copy) ==
    IF "daily_plans" \in copy.aliases
    THEN [obj EXCEPT !.daily_plans = IsoDays(obj.daily_plans)]
    ELSE obj

JsonFile(copy) == [format |-> "json", data |-> WithIsoDates(copy.dict)]

MonthNames ==
    <<"January", "February", "March", "April", "May", "June", "July", "August",
      "September", "October", "November", "December">>

\* date.strftime('%B %d, %Y')
LongDate(date) == <<MonthNames[date.m], " ">> \o TwoDigits(date.d) \o <<", ">> \o FourDigits(date.y)

\* template.render(itinerary=itinerary): what the template reads of the itinerary
HtmlFile(it) ==
    [format |-> "html",
     title |-> it.destination,
     duration |-> <<LongDate(it.start_date), LongDate(it.end_date)>>,
     hotel |-> IF it.hotel = None THEN None
               ELSE Some(<<it.hotel[1].name, it.hotel[1].address>>),
     days |-> [i \in 1..Len(it.daily_plans) |->
                  [heading |-> <<DayName(it.daily_plans[i].date), ", ">>
                                  \o LongDate(it.daily_plans[i].date),
                   activities |-> [j \in 1..Len(it.daily_plans[i].activities) |->
                                      it.daily_plans[i].activities[j].name]]]]

\* pdfkit.from_file(html_filepath, pdf_filepath)
PdfFile(html) == [format |-> "pdf", source |-> html]

\* what a call leaves: the directory, the value returned and the Itinerary
Exported(dir, ret, obj) == [dir |-> dir, ret |-> ret, obj |-> obj]

export_json(dir, obj, name) ==
    Exported(Put(dir, name, JsonFile(asdict(obj))), Value(name),
             AfterDictWrites(obj, asdict(obj)))

export_html(dir, obj, name) == Exported(Put(dir, name, HtmlFile(obj)), Value(name), obj)

\* the conversion of the file html_name of dir and the removal of that file
PdfConverted(dir, obj, html_name, name, converts) ==
    IF ~converts THEN Exported(dir, Raised("Failed to create PDF: wkhtmltopdf"), obj)
    ELSE Exported(Without(Put(dir, name, PdfFile(dir[html_name])), html_name),
                  Value(name), obj)

export_pdf(dir, obj, name, converts) ==
    PdfConverted(export_html(dir, obj, ReplacePdf(name)).dir, obj, ReplacePdf(name), name,
                 converts)

\* the dict that export_all returns when export_pdf, the last of the three, has returned
AllExported(base, json, pdf) ==
    Exported(pdf.dir,
             IF pdf.ret.ok
             THEN Value([json |-> base \o <<".json">>, html |-> base \o <<".html">>,
                         pdf |-> base \o <<".pdf">>])
             ELSE pdf.ret,
             json.obj)

export_all(dir, obj, base, converts) ==
    AllExported(base,
                export_json(dir, obj, base \o <<".json">>),
                export_pdf(export_html(export_json(dir, obj, base \o <<".json">>).dir, obj,
                                       base \o <<".html">>).dir,
                           obj, base \o <<".pdf">>, converts))


\* a day whose only activity has none of the optional keys, cost included
FreeDay ==
    GoodDay(Chars_2024_06_02, <<WithoutAll(LouvreVisit, OptionalActivityKeys)>>, 0)

\* itineraries that build_itinerary returns: with and without a hotel, of one and of two
\* days, with and without activity costs
ExportHotels == {None, Some(ParseHotelFromSearchResult(
                           [title |-> <<"Ritz", "DASH", "Booking">>,
                            content |-> <<"3", " ", "/", " ", "5", "w", "$", "120">>,
                            url |-> "https://booking.com/h"]))}

ExportReplies ==
    {Reply(<<"OBJ">>, SampleObject),
     Reply(<<"OBJ">>, ReplyObject(<<LateDay, EarlyDay>>, JNumber(3), <<"P">>)),
     Reply(<<"OBJ">>, ReplyObject(<<FreeDay>>, JNumber(0), <<"P">>))}

ExportItineraries ==
    {build_itinerary(p, h, r).itinerary[1] :
        p \in TripPreferencesInputs, h \in ExportHotels, r \in ExportReplies}

\* base names handed to export_all: the default ones, and one that holds ".pdf"
BaseNames(it) == {DefaultBase(it, stamp) : stamp \in Stamps} \cup {<<"trip", ".pdf", "v2">>}

\* no function of the formatter or of the exporter has been called
NoCalls == [call |-> "none", ret |-> Value(None)]

InitExport ==
    /\ BuilderIdle
    /\ PrefsIdle
    /\ SearchIdle
    /\ WizardIdle
    /\ PromptIdle
    /\ LLMIdle
    /\ itinerary_obj \in ExportItineraries
    /\ output_dir = EmptyDict
    /\ returned = NoCalls

\* a call of the exporter has ended
Leaves(call, out) ==
    /\ output_dir' = out.dir
    /\ itinerary_obj' = out.obj
    /\ returned' = [call |-> call, ret |-> out.ret]

FormatForDisplay ==
    /\ Leaves("format_for_display",
              Exported(output_dir, format_for_display(itinerary_obj), itinerary_obj))
    /\ UNCHANGED <<prompt_vars, llm_vars, builder_vars, prefs_vars, search_vars, wizard_vars>>

ExportJson ==
    /\ \E stamp \in Stamps :
          Leaves("export_json",
                 export_json(output_dir, itinerary_obj,
                             DefaultBase(itinerary_obj, stamp) \o <<".json">>))
    /\ UNCHANGED <<prompt_vars, llm_vars, builder_vars, prefs_vars, search_vars, wizard_vars>>

ExportHtml ==
    /\ \E stamp \in Stamps :
          Leaves("export_html",
                 export_html(output_dir, itinerary_obj,
                             DefaultBase(itinerary_obj, stamp) \o <<".html">>))
    /\ UNCHANGED <<prompt_vars, llm_vars, builder_vars, prefs_vars, search_vars, wizard_vars>>

ExportPdf ==
    /\ \E stamp \in Stamps, converts \in BOOLEAN :
          Leaves("export_pdf",
                 export_pdf(output_dir, itinerary_obj,
                            DefaultBase(itinerary_obj, stamp) \o <<".pdf">>, converts))
    /\ UNCHANGED <<prompt_vars, llm_vars, builder_vars, prefs_vars, search_vars, wizard_vars>>

ExportAll ==
    /\ \E base \in BaseNames(itinerary_obj), converts \in BOOLEAN :
          Leaves("export_all", export_all(output_dir, itinerary_obj, base, converts))
    /\ UNCHANGED <<prompt_vars, llm_vars, builder_vars, prefs_vars, search_vars, wizard_vars>>

NextExport ==
    \/ FormatForDisplay
    \/ ExportJson
    \/ ExportHtml
    \/ ExportPdf
    \/ ExportAll

SpecExport == InitExport /\ [][NextExport]_vars

-----------------------------------------------------------------------------
(* The prompt (src/tools/build_itinerary.py, _create_llm_prompt) *)

(***************************************************************************)
(* A text is a sequence of pieces: the pieces of the template are kept as  *)
(* they stand in the f-string, a formatted number or date is a run of      *)
(* characters, a string of the inputs is one piece.                        *)
(***************************************************************************)

\* the most calls of _create_llm_prompt in a behaviour
MaxCalls == 2

RECURSIVE DecimalDigits(_)
DecimalDigits(n) ==
    IF n < 10 THEN <<DigitChar(n)>> ELSE DecimalDigits(n \div 10) \o <<DigitChar(n % 10)>>

\* str(x) of a float that holds a whole number: "2000.0"
StrFloat(n) == DecimalDigits(n) \o <<".", "0">>

\* str(x) of a float given in tenths: "4.5"
StrTenths(t) == DecimalDigits(t \div 10) \o <<".", DigitChar(t % 10)>>

\* str(datetime.date()): "2024-06-01"
StrDate(datetime) == Strftime(datetime)

\* sep.join(items)
RECURSIVE Join(_, _)
Join(sep, items) ==
    IF items = <<>> THEN <<>>
    ELSE IF Len(items) = 1 THEN items[1]
    ELSE items[1] \o sep \o Join(sep, Tail(items))

\* hotel.name with no test of hotel before it
HotelFieldUnchecked(h, field, absent) ==
    IF h = None THEN Raised("'NoneType' object has no attribute '" \o field \o "'")
    ELSE Value(<<h[1][field]>>)

\* hotel.name if hotel else 'Not selected yet': the attribute is read of a hotel only
HotelField(h, field, absent) ==
    IF h # None THEN Value(<<h[1][field]>>) ELSE Value(<<absent>>)

\* attraction.visit_duration or 'Not specified', of an optional string
StringOrNotSpecified(v) == IF v = None \/ v = Some("") THEN <<"Not specified">> ELSE v

\* attraction.rating or 'Not specified', of an optional float
RatingOrNotSpecified(v) ==
    IF v = None \/ v = Some(0) THEN <<"Not specified">> ELSE StrTenths(v[1])

\* the six lines that _format_attractions_for_prompt appends for attraction number i
AttractionLines(i, attraction) ==
    << DecimalDigits(i) \o <<". ", attraction.name>>,
       <<"   Category: ", attraction.category>>,
       <<"   Duration: ">> \o StringOrNotSpecified(attraction.visit_duration),
       <<"   Price Level: ">> \o StringOrNotSpecified(attraction.price_level),
       <<"   Rating: ">> \o RatingOrNotSpecified(attraction.rating) \o <<"/5.0">>,
       <<>> >>

\* formatted, after the loop over the attractions from number i on
RECURSIVE FormattedFrom(_, _)
FormattedFrom(i, attractions) ==
    IF i > Len(attractions) THEN <<>>
    ELSE AttractionLines(i, attractions[i]) \o FormattedFrom(i + 1, attractions)

\* a formatting that takes the attractions off the list of the caller as it goes
_format_attractions_by_popping(attractions) ==
    [text |-> Join(<<"\n">>, FormattedFrom(1, attractions)), attractions |-> <<>>]

\* _format_attractions_for_prompt: the text, and the list as the call leaves it
_format_attractions_for_prompt(attractions) ==
    [text |-> Join(<<"\n">>, FormattedFrom(1, attractions)), attractions |-> attractions]

\* the ten requirements and the JSON structure, which hold no field of the inputs
PromptInstructions ==
    <<"\n\nPlease create a day-by-day itinerary that: ... ",
      "Format the response as a JSON object with the following structure: ... ",
      "Ensure all dates are in YYYY-MM-DD format and times are in HH:MM 24-hour format. ... \n">>

\* the f-string, for a hotel name, a hotel address and a list of attractions that were
\* formatted
PromptText(prefs, name, address, formatted) ==
    IF ~name.ok THEN name
    ELSE IF ~address.ok THEN address
    ELSE Value(<<"Create a detailed travel itinerary for a trip to ", prefs.destination,
                 " \nfrom ">> \o StrDate(prefs.start_date)
                   \o <<" to ">> \o StrDate(prefs.end_date)
                   \o <<".\n\nTravel Style: ", prefs.travel_style, "\nBudget: $">>
                   \o StrFloat(prefs.budget)
                   \o <<"\nInterests: ">>
                   \o Join(<<", ">>, [i \in 1..Len(prefs.interests) |->
                                         <<prefs.interests[i]>>])
                   \o <<"\n\nHotel: ">> \o name.value
                   \o <<"\nHotel Location: ">> \o address.value
                   \o <<"\n\nAvailable Attractions:\n">> \o formatted.text
                   \o PromptInstructions)

\* what a call leaves: the value returned, the builder and the three arguments
PromptCall(self, ret, prefs, h, attractions) ==
    [ret |-> ret, self |-> self,
     args |-> [trip_prefs |-> prefs, hotel |-> h, attractions |-> attractions]]

PromptOf(self, prefs, h, formatted) ==
    PromptCall(self,
               PromptText(prefs, HotelField(h, "name", "Not selected yet"),
                          HotelField(h, "address", "Not available"), formatted),
               prefs, h, formatted.attractions)

_create_llm_prompt(self, prefs, h, attractions) ==
    PromptOf(self, prefs, h, _format_attractions_for_prompt(attractions))

\* attractions with and without the optional fields; a rating of 0.0 counts as none
PromptAttraction(name, category, duration, price_level, rating) ==
    [name |-> name, category |-> category, visit_duration |-> duration,
     price_level |-> price_level, rating |-> rating]

PromptAttractions ==
    {<<>>,
     <<PromptAttraction("Louvre", "museum", Some("2-3 hours"), Some("$$"), Some(45))>>,
     <<PromptAttraction("Louvre", "museum", None, None, None),
       PromptAttraction("Eiffel Tower", "landmark", Some(""), Some("$"), Some(0))>>}

\* the arguments of a call of build_itinerary
PromptArguments ==
    {[trip_prefs |-> p, hotel |-> h, attractions |-> a] :
        p \in TripPreferencesInputs, h \in HotelInputs, a \in PromptAttractions}

\* ItineraryBuilder(llm_client)
ChatGroq == [model |-> "llama3"]

InitPrompt ==
    /\ BuilderIdle
    /\ PrefsIdle
    /\ SearchIdle
    /\ WizardIdle
    /\ LLMIdle
    /\ ExportIdle
    /\ llm_client = Some(ChatGroq)
    /\ prompt_inputs \in {Some(args) : args \in PromptArguments}
    /\ prompts = <<>>

\* the caller has other preferences, another hotel or other attractions
NewArguments ==
    /\ \E args \in PromptArguments : prompt_inputs' = Some(args)
    /\ UNCHANGED <<llm_client, prompts>>
    /\ UNCHANGED <<llm_vars, export_vars, builder_vars, prefs_vars, search_vars, wizard_vars>>

\* the call has ended: the builder and the arguments are as it leaves them, and the
\* arguments it was given are kept with what it returned
PromptCreated(call) ==
    /\ llm_client' = Some(call.self.llm_client)
    /\ prompt_inputs' = Some(call.args)
    /\ prompts' = Append(prompts, [args |-> prompt_inputs[1], ret |-> call.ret])

\* prompt = self._create_llm_prompt(trip_prefs, hotel, attractions)
CreatePrompt ==
    /\ Len(prompts) < MaxCalls
    /\ PromptCreated(_create_llm_prompt([llm_client |-> llm_client[1]],
                                        prompt_inputs[1].trip_prefs, prompt_inputs[1].hotel,
                                        prompt_inputs[1].attractions))
    /\ UNCHANGED <<llm_vars, export_vars, builder_vars, prefs_vars, search_vars, wizard_vars>>

NextPrompt ==
    \/ NewArguments
    \/ CreatePrompt

SpecPrompt == InitPrompt /\ [][NextPrompt]_vars

-----------------------------------------------------------------------------
(* parse_trip_preferences_with_llm (src/tools/parse_trip_prefs.py) *)

(***************************************************************************)
(* A reply of the client is a text of tokens and the object that the token *)
(* "OBJ" of the text stands for, or an exception of invoke.  An object of  *)
(* a reply is the dict of its members that are not null and the set of the *)
(* keys whose value is null.                                               *)
(***************************************************************************)

Max(S) == CHOOSE x \in S : \A y \in S : x >= y

LLMReply(raises, text, obj) == [raises |-> raises, text |-> text, obj |-> obj]

\* the positions of a "{" in the text
Opens(s) == {i \in 1..Len(s) : s[i] \in {"LB", "OBJ"}}

\* the positions of a "}" that comes after the "{" at first
Closes(s, first) == {j \in first..Len(s) : s[j] = "OBJ" \/ (s[j] = "RB" /\ j > first)}

\* re.search(r'\{.*\}', content, re.DOTALL): the text from the first "{" to the last "}",
\* or None
BraceMatch(s) ==
    IF Opens(s) = {} THEN None
    ELSE IF Closes(s, Min(Opens(s))) = {} THEN None
    ELSE Some(SubSeq(s, Min(Opens(s)), Max(Closes(s, Min(Opens(s))))))

\* {"error": message}, returned in the place of a reply that holds no JSON object
ErrorDict(message) == Value(Decoded("dict", [dict |-> [error |-> message], nulls |-> {}]))

\* response = self.llm_client.invoke(messages), json.loads(response.content), and in its
\* except clause json.loads of the match of the braces, or else the given outcome
ReadReply(reply, otherwise) ==
    IF reply.raises THEN Raised("llm_client.invoke failed")
    ELSE IF JsonLoads(reply.text, reply.obj).ok THEN Value(JsonLoads(reply.text, reply.obj))
    ELSE IF BraceMatch(reply.text) = None THEN otherwise
    ELSE IF JsonLoads(BraceMatch(reply.text)[1], reply.obj).ok
         THEN Value(JsonLoads(BraceMatch(reply.text)[1], reply.obj))
    ELSE Raised("JSONDecodeError")

parse_natural_language_input(reply) ==
    ReadReply(reply, Raised("Could not parse LLM response as JSON"))

get_destination_insights(reply) ==
    ReadReply(reply, ErrorDict("Could not parse destination insights"))

\* ', '.join(preferences.get('dietary_restrictions', [])) raises for the value None, which
\* the key always has when the user gave no list; the client is asked after it
generate_personalized_recommendations(preferences, reply) ==
    IF preferences.dietary_restrictions = None THEN Raised("can only join an iterable")
    ELSE ReadReply(reply, ErrorDict("Could not parse personalized recommendations"))

\* the number of replies generate_personalized_recommendations takes
RecommendationsAsked(preferences) == IF preferences.dietary_restrictions = None THEN 0 ELSE 1

\* the required fields that are not in the input, or are None in it; of the inputs of
\* the model the budget alone can be None
MissingOrNone(user_input) ==
    {i \in 1..Len(RequiredFields) :
        \/ RequiredFields[i] \notin DOMAIN user_input
        \/ RequiredFields[i] = "budget" /\ user_input["budget"] = JNone}

\* the message of the first check of parse_trip_preferences_with_llm that fails, or ""
LLMPreferencesError(user_input) ==
    IF MissingOrNone(user_input) # {}
    THEN "Missing required field: " \o RequiredFields[Min(MissingOrNone(user_input))]
    ELSE FieldsError(ParseDate(user_input["start_date"]), ParseDate(user_input["end_date"]),
                     user_input["budget"])

\* for key, value in parsed_nl.items(): if value is not None and key not in user_input
MergeParsed(user_input, parsed_nl) == Update(parsed_nl.dict, user_input)

preferences_dict(user_input) ==
    [destination |-> user_input["destination"],
     travel_style |-> user_input["travel_style"],
     budget |-> FloatOf(user_input["budget"]).value,
     interests |-> user_input["interests"],
     trip_duration_days |-> DaysBetween(ParseDate(user_input["start_date"]).date,
                                        ParseDate(user_input["end_date"]).date),
     dietary_restrictions |-> GetOptional(user_input, "dietary_restrictions"),
     special_requirements |-> GetOptional(user_input, "special_requirements")]

\* the value of a field that holds what a reply was read as
Stored(read) == Some([kind |-> read.value.kind, value |-> read.value.dict])

\* asdict(trip_prefs) of the enhanced TripPreferences
EnhancedTripPreferences(user_input, insights, recommendations) ==
    [MakeTripPreferences(user_input) EXCEPT
        !.destination_insights = Stored(insights),
        !.personalized_recommendations = Stored(recommendations)]

\* what the call leaves: the state, and the number of replies the client has given
LLMOutcome(st, answered) == [state |-> st, answered |-> answered]

\* except Exception as e: state["error"] = str(e)
LLMFailed(st, message, answered) == LLMOutcome(Put(st, "error", message), answered)

AfterRecommendations(st, user_input, answered, insights, recommendations) ==
    IF ~recommendations.ok THEN LLMFailed(st, recommendations.error, answered)
    ELSE LLMOutcome(Without(Update(st, EnhancedTripPreferences(user_input, insights,
                                                               recommendations)),
                            "user_input"),
                    answered)

AfterInsights(st, user_input, pending, answered, insights) ==
    IF ~insights.ok THEN LLMFailed(st, insights.error, answered + 1)
    ELSE AfterRecommendations(
             st, user_input,
             answered + 1 + RecommendationsAsked(preferences_dict(user_input)),
             insights,
             generate_personalized_recommendations(preferences_dict(user_input),
                                                   pending[answered + 2]))

\* from the check of the required fields on, for a user input as the merge left it
AfterMerge(st, user_input, pending, answered) ==
    IF LLMPreferencesError(user_input) # ""
    THEN LLMFailed(st, LLMPreferencesError(user_input), answered)
    ELSE AfterInsights(st, user_input, pending, answered,
                       get_destination_insights(pending[answered + 1]))

\* the merge of the parsed text into user_input, which is the dict of the state
AfterNaturalLanguage(st, user_input, pending, parsed_nl) ==
    IF ~parsed_nl.ok THEN LLMFailed(st, parsed_nl.error, 1)
    ELSE IF parsed_nl.value.kind # "dict"
    THEN LLMFailed(st, "'" \o parsed_nl.value.kind \o "' object has no attribute 'items'", 1)
    ELSE AfterMerge(Put(st, "user_input", MergeParsed(user_input, parsed_nl.value.dict)),
                    MergeParsed(user_input, parsed_nl.value.dict), pending, 1)

parse_trip_preferences_with_llm(st, pending) ==
    IF "natural_language_input" \in DOMAIN UserInputOf(st)
    THEN AfterNaturalLanguage(st, UserInputOf(st), pending,
                              parse_natural_language_input(pending[1]))
    ELSE AfterMerge(st, UserInputOf(st), pending, 0)

\* user inputs of the enhanced parser: with a list of dietary restrictions, with None and
\* without the key; with a text in natural language; with a field that fails a check
JuneInput(end_day, budget) ==
    FullUserInput(Strftime(Date(2024, 6, 1)), Strftime(Date(2024, 6, end_day)), budget)

LLMUserInputs ==
    LET complete == [JuneInput(7, JNumber(2)) EXCEPT
                        !.dietary_restrictions = Some(<<"vegetarian">>)]
    IN  {complete,
         JuneInput(7, JNumber(2)),
         Without(complete, "dietary_restrictions"),
         Without(complete, "destination"),
         [complete EXCEPT !.budget = JNone],
         [complete EXCEPT !.budget = JNumber(0)],
         [complete EXCEPT !.end_date = Strftime(Date(2024, 6, 1))],
         Put(complete, "natural_language_input", "a week in Paris"),
         Put(Without(complete, "budget"), "natural_language_input", "a week in Paris"),
         Put(Without(complete, "end_date"), "natural_language_input", "a week in Paris")}

\* objects of the replies: insights, and preferences read off a text with a null date
ReplyObjects ==
    {[dict |-> [best_time_to_visit |-> "spring"], nulls |-> {}],
     [dict |-> [budget |-> JNumber(1), destination |-> "Rome"], nulls |-> {"end_date"}]}

\* replies: the object alone, the object inside other text, text without braces, braces
\* around text that is not JSON, a number, and an exception of invoke
LLMReplies ==
    {LLMReply(FALSE, text, obj) : text \in {<<"OBJ">>, <<"P", "OBJ", "P">>},
                                   obj \in ReplyObjects}
      \cup {LLMReply(FALSE, text, [dict |-> EmptyDict, nulls |-> {}]) :
               text \in {<<"P">>, <<"P", "LB", "P", "RB">>, <<"N">>}}
      \cup {LLMReply(TRUE, <<>>, [dict |-> EmptyDict, nulls |-> {}])}

\* a call asks the client three times at most
MaxInvokes == 3

InitLLMPrefs ==
    /\ BuilderIdle
    /\ SearchIdle
    /\ WizardIdle
    /\ PromptIdle
    /\ ExportIdle
    /\ state \in {[user_input |-> u] : u \in LLMUserInputs} \cup {[destination_insights |-> None]}
    /\ llm_replies \in {[pending |-> r, answered |-> <<>>] :
                           r \in [1..MaxInvokes -> LLMReplies]}

\* the call has returned: the state is as it leaves it, and the replies it took are given
LLMReturned(out) ==
    /\ state' = out.state
    /\ llm_replies' = [pending |-> SubSeq(llm_replies.pending, out.answered + 1,
                                          Len(llm_replies.pending)),
                       answered |-> SubSeq(llm_replies.pending, 1, out.answered)]

ParseTripPreferencesWithLLM ==
    /\ Unparsed
    /\ llm_replies.answered = <<>>
    /\ LLMReturned(parse_trip_preferences_with_llm(state, llm_replies.pending))
    /\ UNCHANGED <<prompt_vars, export_vars, builder_vars, search_vars, wizard_vars>>

NextLLMPrefs == ParseTripPreferencesWithLLM

SpecLLMPrefs == InitLLMPrefs /\ [][NextLLMPrefs]_vars

-----------------------------------------------------------------------------
(* Properties of parse_trip_preferences_with_llm *)

\* the reply is one that a step cannot read: invoke raised, or the text is not JSON and
\* holds no JSON between its first "{" and its last "}"
Unreadable(reply) == ~ReadReply(reply, Raised("no JSON object")).ok

\* C23: in parse_trip_preferences_with_llm every failure of a step (the parsing of the
\* natural language, the destination insights, the personalized recommendations, the
\* validation of the fields) sets state["error"]; no state is returned without "error"
\* in which a value stands in the place of what a failed step should have produced.
C23_NoFailureSubstituted ==
    (/\ "destination" \in DOMAIN state
     /\ "error" \notin DOMAIN state)
        => \A i \in 1..Len(llm_replies.answered) : ~Unreadable(llm_replies.answered[i])

-----------------------------------------------------------------------------
(* Properties of the prompt *)

\* the calls made so far for preferences alone: no hotel, no attractions
BareCalls == {i \in 1..Len(prompts) : /\ prompts[i].args.hotel = None
                                      /\ prompts[i].args.attractions = <<>>}

\* C21: for valid preferences, no hotel and an empty list of attractions, the prompt of
\* _create_llm_prompt holds the destination as it is, the start date and the end date, and
\* the marker 'Not selected yet' for the hotel; the call returns, reading no attribute of
\* the hotel that is absent.
C21_BarePromptContents ==
    \A i \in BareCalls :
        /\ prompts[i].ret.ok
        /\ Contains(prompts[i].ret.value, <<prompts[i].args.trip_prefs.destination>>)
        /\ Contains(prompts[i].ret.value, StrDate(prompts[i].args.trip_prefs.start_date))
        /\ Contains(prompts[i].ret.value, StrDate(prompts[i].args.trip_prefs.end_date))
        /\ Contains(prompts[i].ret.value, <<"\n\nHotel: ", "Not selected yet">>)

\* a prompt for a trip to Rome with no hotel and no attractions
C21_Witness ==
    \E i \in BareCalls :
        /\ prompts[i].ret.ok
        /\ prompts[i].args.trip_prefs.destination = "Rome"
        /\ Contains(prompts[i].ret.value, <<"2", "0", "2", "4", "-", "0", "7", "-", "0", "3">>)
        /\ Contains(prompts[i].ret.value, <<"Not selected yet">>)

-----------------------------------------------------------------------------
(* Properties of the formatter and of the exporter *)

\* the names that export_json, export_html and export_pdf give their files by default
DefaultNames(it) ==
    {DefaultBase(it, stamp) \o <<ext>> : stamp \in Stamps, ext \in {".json", ".html", ".pdf"}}

\* C24: once built, an Itinerary is never modified: format_for_display, export_json,
\* export_html and export_pdf, in any order and any number of times, leave every field of
\* the Itinerary, of its day plans and of their activities as it was.
C24_ItineraryUnchanged == [][itinerary_obj' = itinerary_obj]_vars

\* all three files of a two-day itinerary have been written and the itinerary has then
\* been formatted for display
C24_Witness ==
    /\ returned.call = "format_for_display"
    /\ returned.ret.ok
    /\ DefaultNames(itinerary_obj) \subseteq DOMAIN output_dir
    /\ Len(itinerary_obj.daily_plans) = 2
    /\ itinerary_obj \in ExportItineraries

\* C25: after export_all has returned its dict, each of the three paths of the dict
\* ('json', 'html', 'pdf') names a file that exists in the output directory.
C25_ExportAllPathsExist ==
    (returned.call = "export_all" /\ returned.ret.ok)
        => \A k \in {"json", "html", "pdf"} : returned.ret.value[k] \in DOMAIN output_dir

\* C30: every Itinerary that build_itinerary returns has at least one day plan, so that
\* format_budget_analysis, which divides total_cost by the number of day plans, never
\* divides by zero for it.
C30_AverageDailyCostDefined ==
    pc = "returned"
        => /\ Len(result[1].daily_plans) >= 1
           /\ format_budget_analysis(result[1]).ok

\* the average of a returned itinerary of two days
C30_Witness ==
    /\ pc = "returned"
    /\ Len(result[1].daily_plans) = 2
    /\ format_budget_analysis(result[1]).ok
    /\ format_budget_analysis(result[1]).value.average_daily_cost
         = [num |-> result[1].total_cost, den |-> 2]

====
